---- MODULE Spec2Model ----
(***************************************************************************)
(* Model of the EvalNat mail-merge tool chain (PublipostageEvalNat):       *)
(*   - text normalisation (canon_div, strip_accents_lower, squash_key)     *)
(*   - merge_files        (merge_parents_4e.py)                            *)
(*   - build_mailmerge    (build_mailmerge_4e_from_merged_v5.py, both the  *)
(*                         Windows function and the macOS main)            *)
(*   - split_pdf          (split_4C.py)                                    *)
(*   - the pipeline main  (pipeline_evalnat.py)                            *)
(*   - the e-mail list    (_canon_email_list of merge_parents_4e.py)       *)
(*   - the CSV ingestion  (open_csv_reader and the reading of the rows)    *)
(* A string is a sequence of characters; a character is a one-element      *)
(* token ("Egrave" stands for U+00C8, "egrave" for U+00E8, "eacute" for    *)
(* U+00E9, "DQ" for the double quote).                                     *)
(***************************************************************************)
EXTENDS Integers, Sequences, FiniteSets, TLC

VARIABLES
  nz_op,      \* text normaliser: the operation under test
  nz_val,     \* text normaliser: <<input, f(input), f(f(input)), ...>>
  csv_paths,  \* merge_files: the input files, in argument order (each a sequence of rows)
  merged,     \* merge_files: rows of parents_4e_merged.csv (<<>> until written)
  mg_pc,      \* merge_files: "start", "written" or "exit2"
  mg_status,  \* merge_files: per input path "ok", "missing" or "unparsable"
  jn_variant, \* join: "win" (build_mailmerge) or "mac" (main of the macOS script)
  jn_parents, \* join: rows of the parents CSV, as read
  jn_pdfs,    \* join: the PDF files under pdf_base, in enumeration order
  jn_annee,   \* join: the --annee argument
  out_rows,   \* join: rows of the mail-merge CSV
  miss_rows,  \* join: rows of the missing report
  jn_pc,      \* join: "start", "written" or "exit"
  pl_platform,  \* pipeline: "win" (Windows/pipeline_evalnat.py) or "mac" (pipeline_evalnat.py)
  pl_args,      \* pipeline: the command-line arguments of the run
  pl_parents,   \* pipeline: rows of the parents export (--parents) or of --csv-in
  pl_out_dir,   \* pipeline: the PDF files under --out-dir, in enumeration order
  pl_csv,       \* pipeline: rows of the parents CSV read by the class filter
  pl_canon,     \* pipeline: rows of parents_<classe>_canon.csv
  pl_mailmerge, \* pipeline: rows of mailmerge_<classe>.csv
  pl_missing,   \* pipeline: rows of missing_<classe>.csv
  pl_final,     \* pipeline: rows of mailmerge_<classe>_with_emails.csv
  pl_started,   \* pipeline: the stages started so far, in order
  pl_pc,        \* pipeline: the stage about to start, "done" or "aborted"
  sp_input,     \* split_pdf: [exists, keep_accents, pages], pages being the input's pages
  sp_info,      \* split_pdf: pages_info after the subject resolution
  sp_files,     \* split_pdf: file name -> index of the page the file holds
  sp_extracted, \* split_pdf: the list `extracted`
  sp_missing,   \* split_pdf: the list `missing`
  sp_report,    \* split_pdf: the printed report of unresolved pages
  sp_pc,        \* split_pdf: "start", "done" or "error"
  em_values,    \* _canon_email_list: the argument values
  em_out,       \* _canon_email_list: the returned list
  em_pc,        \* _canon_email_list: "start" or "done"
  rd_variant,   \* CSV ingestion: "build" (build_mailmerge) or "pipeline" (pipeline_evalnat)
  rd_bytes,     \* CSV ingestion: the bytes of the file
  rd_decoder,   \* CSV ingestion: the encoding open_csv_reader opened the file with
  rd_text,      \* CSV ingestion: what reading the rows gave
  rd_pc         \* CSV ingestion: "start", "opened", "read" or "raised"

NormVars == <<nz_op, nz_val>>

MergeVars == <<csv_paths, merged, mg_pc, mg_status>>

JoinVars == <<jn_variant, jn_parents, jn_pdfs, jn_annee, out_rows, miss_rows, jn_pc>>

PipeVars ==
  <<pl_platform, pl_args, pl_parents, pl_out_dir, pl_csv, pl_canon, pl_mailmerge, pl_missing,
    pl_final, pl_started, pl_pc>>

SplitVars == <<sp_input, sp_info, sp_files, sp_extracted, sp_missing, sp_report, sp_pc>>

EmailVars == <<em_values, em_out, em_pc>>

ReaderVars == <<rd_variant, rd_bytes, rd_decoder, rd_text, rd_pc>>

\* the components added after the five tools
ToolVars == <<EmailVars, ReaderVars>>

vars == <<NormVars, MergeVars, JoinVars, PipeVars, SplitVars, ToolVars>>

\* what each component leaves alone
OutsideNorm == <<MergeVars, JoinVars, PipeVars, SplitVars, ToolVars>>

OutsideMerge == <<NormVars, JoinVars, PipeVars, SplitVars, ToolVars>>

OutsideJoin == <<NormVars, MergeVars, PipeVars, SplitVars, ToolVars>>

OutsidePipe == <<NormVars, MergeVars, JoinVars, SplitVars, ToolVars>>

OutsideSplit == <<NormVars, MergeVars, JoinVars, PipeVars, ToolVars>>

OutsideEmail == <<NormVars, MergeVars, JoinVars, PipeVars, SplitVars, ReaderVars>>

OutsideReader == <<NormVars, MergeVars, JoinVars, PipeVars, SplitVars, EmailVars>>

\* ------------------------------------------------------------------------
\* Characters
\* ------------------------------------------------------------------------
UpperSeq ==
  <<"A", "B", "C", "D", "E", "F", "G", "H", "I", "J", "K", "L", "M",
    "N", "O", "P", "Q", "R", "S", "T", "U", "V", "W", "X", "Y", "Z">>

LowerSeq ==
  <<"a", "b", "c", "d", "e", "f", "g", "h", "i", "j", "k", "l", "m",
    "n", "o", "p", "q", "r", "s", "t", "u", "v", "w", "x", "y", "z">>

DigitSeq == <<"0", "1", "2", "3", "4", "5", "6", "7", "8", "9">>

Range(q) == {q[i] : i \in DOMAIN q}

IndexOf(q, c) == CHOOSE i \in DOMAIN q : q[i] = c

UpperLetters == Range(UpperSeq)

LowerLetters == Range(LowerSeq)

Digits == Range(DigitSeq)

Whitespace == {" "}

\* unicodedata.normalize("NFD", c) with the combining marks (category Mn) removed
StripMn(c) ==
  CASE c = "Egrave" -> "E"
    [] c = "Eacute" -> "E"
    [] c = "Ccedil" -> "C"
    [] c = "egrave" -> "e"
    [] c = "eacute" -> "e"
    [] c = "ccedil" -> "c"
    [] OTHER -> c

\* the case pairs and code points of the unaccented letters and the digits
LowerToUpper == [c \in LowerLetters |-> UpperSeq[IndexOf(LowerSeq, c)]]

UpperToLower == [c \in UpperLetters |-> LowerSeq[IndexOf(UpperSeq, c)]]

AsciiCode ==
  [c \in UpperLetters \cup LowerLetters \cup Digits |->
     IF c \in UpperLetters THEN 64 + IndexOf(UpperSeq, c)
     ELSE IF c \in LowerLetters THEN 96 + IndexOf(LowerSeq, c)
     ELSE 47 + IndexOf(DigitSeq, c)]

\* str.upper() on one character
UpperCh(c) ==
  CASE c \in LowerLetters -> LowerToUpper[c]
    [] c = "egrave" -> "Egrave"
    [] c = "eacute" -> "Eacute"
    [] c = "ccedil" -> "Ccedil"
    [] OTHER -> c

\* str.lower() on one character
LowerCh(c) ==
  CASE c \in UpperLetters -> UpperToLower[c]
    [] c = "Egrave" -> "egrave"
    [] c = "Eacute" -> "eacute"
    [] c = "Ccedil" -> "ccedil"
    [] OTHER -> c

\* Unicode code point, the order Python compares strings by
CodePoint(c) ==
  CASE c \in DOMAIN AsciiCode -> AsciiCode[c]
    [] c = " " -> 32
    [] c = "DQ" -> 34
    [] c = "-" -> 45
    [] c = "." -> 46
    [] c = "=" -> 61
    [] c = "_" -> 95
    [] c = "Ccedil" -> 199
    [] c = "Egrave" -> 200
    [] c = "Eacute" -> 201
    [] c = "ccedil" -> 231
    [] c = "egrave" -> 232
    [] c = "eacute" -> 233
    [] OTHER -> 0

\* ------------------------------------------------------------------------
\* String helpers (Python str / re primitives)
\* ------------------------------------------------------------------------
MapStr(F(_), s) == [i \in 1..Len(s) |-> F(s[i])]

FilterStr(Keep(_), s) == SelectSeq(s, Keep)

RECURSIVE LStrip(_)
LStrip(s) == IF s # <<>> /\ Head(s) \in Whitespace THEN LStrip(Tail(s)) ELSE s

RECURSIVE RStrip(_)
RStrip(s) ==
  IF s # <<>> /\ s[Len(s)] \in Whitespace THEN RStrip(SubSeq(s, 1, Len(s) - 1)) ELSE s

\* str.strip()
Strip(s) == RStrip(LStrip(s))

StartsWith(s, pat) == Len(s) >= Len(pat) /\ SubSeq(s, 1, Len(pat)) = pat

\* str.replace(pat, rep): leftmost, non-overlapping occurrences
RECURSIVE Replace(_, _, _)
Replace(s, pat, rep) ==
  IF Len(s) < Len(pat) THEN s
  ELSE IF StartsWith(s, pat)
       THEN rep \o Replace(SubSeq(s, Len(pat) + 1, Len(s)), pat, rep)
       ELSE <<Head(s)>> \o Replace(Tail(s), pat, rep)

\* Python compares str values lexicographically by code point
RECURSIVE StrLess(_, _)
StrLess(s, t) ==
  IF t = <<>> THEN FALSE
  ELSE IF s = <<>> THEN TRUE
  ELSE IF CodePoint(Head(s)) # CodePoint(Head(t))
       THEN CodePoint(Head(s)) < CodePoint(Head(t))
       ELSE StrLess(Tail(s), Tail(t))

Min(S) == CHOOSE x \in S : \A y \in S : x <= y

Max(S) == CHOOSE x \in S : \A y \in S : x >= y

RECURSIVE Flatten(_)
Flatten(ss) == IF ss = <<>> THEN <<>> ELSE Head(ss) \o Flatten(Tail(ss))

\* dict.get(f, default)
Field(r, f, default) == IF f \in DOMAIN r THEN r[f] ELSE default

\* ------------------------------------------------------------------------
\* Text normaliser
\* ------------------------------------------------------------------------
\* nfd + drop Mn + lower
strip_accents_lower(s) == MapStr(LAMBDA c : LowerCh(StripMn(c)), s)

KeyChars == LowerLetters \cup Digits

IsKeyChar(c) == c \in KeyChars

\* squash of one string: strip_accents_lower then re.sub(r"[^a-z0-9]+", "")
squash(s) == FilterStr(IsKeyChar, strip_accents_lower(s))

\* squash_key(*parts): the parts are joined with "_" BEFORE squashing
RECURSIVE JoinUnderscore(_)
JoinUnderscore(parts) ==
  IF parts = <<>> THEN <<>>
  ELSE IF Len(parts) = 1 THEN parts[1]
  ELSE parts[1] \o <<"_">> \o JoinUnderscore(Tail(parts))

squash_key(parts) == squash(JoinUnderscore(parts))

\* re.match(r'^=\s*"(.+)"\s*$', s) on a stripped string: group(1) or "no match"
NoMatch == <<"no match">>

ExcelUnwrap(s) ==
  IF s = <<>> \/ Head(s) # "=" THEN NoMatch
  ELSE LET rest  == LStrip(Tail(s))
           tail  == RStrip(rest)
       IN  IF Len(tail) >= 3 /\ Head(tail) = "DQ" /\ tail[Len(tail)] = "DQ"
           THEN SubSeq(tail, 2, Len(tail) - 1)
           ELSE NoMatch

DivSeparators == Whitespace \cup {"-", "."}

IsDivSeparator(c) == c \in DivSeparators

canon_div(s0) ==
  LET s   == Strip(s0)
      m   == ExcelUnwrap(s)
      s1  == IF m # NoMatch THEN m ELSE s
      sN  == MapStr(LAMBDA c : StripMn(UpperCh(c)), s1)
      sN1 == Replace(Replace(sN, <<"Egrave", "M", "E">>, <<"E">>), <<"E", "M", "E">>, <<"E">>)
  IN  FilterStr(LAMBDA c : ~IsDivSeparator(c), sN1)

\* normalize_div strips the marks first and upper-cases afterwards
normalize_div(s0) ==
  LET s   == Strip(s0)
      m   == ExcelUnwrap(s)
      s1  == IF m # NoMatch THEN m ELSE s
      sN  == MapStr(LAMBDA c : UpperCh(StripMn(c)), s1)
      sN1 == Replace(Replace(sN, <<"Egrave", "M", "E">>, <<"E">>), <<"E", "M", "E">>, <<"E">>)
  IN  FilterStr(LAMBDA c : ~IsDivSeparator(c), sN1)

\* ------------------------------------------------------------------------
\* Specification SpecNorm: the text normaliser applied to bounded inputs
\* ------------------------------------------------------------------------
MaxStrLen == 3

MaxApply == 2

NormAlphabet == {"4", "D", "E", "M", "e", "m", " ", "Egrave"}

RECURSIVE StringsUpTo(_, _)
StringsUpTo(alphabet, n) ==
  IF n = 0 THEN {<<>>}
  ELSE LET shorter == StringsUpTo(alphabet, n - 1)
       IN  shorter \cup {Append(s, c) : s \in shorter, c \in alphabet}

\* "4 ÈME D", "4eme D", ="4 D", "4 D"
In_4_EME_D == <<"4", " ", "Egrave", "M", "E", " ", "D">>

In_4eme_D == <<"4", "e", "m", "e", " ", "D">>

In_Excel_4_D == <<"=", "DQ", "4", " ", "D", "DQ">>

In_4_D == <<"4", " ", "D">>

NamedDivisions == {In_4_EME_D, In_4eme_D, In_Excel_4_D, In_4_D}

\* "4E ME D": the letters of "EME" separated by a space
In_4E_ME_D == <<"4", "E", " ", "M", "E", " ", "D">>

NormInputs == NamedDivisions \cup {In_4E_ME_D} \cup StringsUpTo(NormAlphabet, MaxStrLen)

NormOps == {"canon_div", "normalize_div", "strip_accents_lower", "squash_key"}

NormInit ==
  /\ nz_op \in NormOps
  /\ \E s \in NormInputs : nz_val = <<s>>

NormIdle ==
  /\ nz_op = "idle"
  /\ nz_val = <<>>

Last(q) == q[Len(q)]

CanApply(op) == nz_op = op /\ Len(nz_val) >= 1 /\ Len(nz_val) <= MaxApply

ApplyCanonDiv ==
  /\ CanApply("canon_div")
  /\ nz_val' = Append(nz_val, canon_div(Last(nz_val)))
  /\ UNCHANGED <<nz_op, OutsideNorm>>

ApplyNormalizeDiv ==
  /\ CanApply("normalize_div")
  /\ nz_val' = Append(nz_val, normalize_div(Last(nz_val)))
  /\ UNCHANGED <<nz_op, OutsideNorm>>

ApplyStripAccentsLower ==
  /\ CanApply("strip_accents_lower")
  /\ nz_val' = Append(nz_val, strip_accents_lower(Last(nz_val)))
  /\ UNCHANGED <<nz_op, OutsideNorm>>

ApplySquashKey ==
  /\ CanApply("squash_key")
  /\ nz_val' = Append(nz_val, squash_key(<<Last(nz_val)>>))
  /\ UNCHANGED <<nz_op, OutsideNorm>>

MergeIdle ==
  /\ csv_paths = <<>>
  /\ merged = <<>>
  /\ mg_pc = "idle"
  /\ mg_status = <<>>

JoinIdle ==
  /\ jn_variant = "idle"
  /\ jn_parents = <<>>
  /\ jn_pdfs = <<>>
  /\ jn_annee = <<>>
  /\ out_rows = <<>>
  /\ miss_rows = <<>>
  /\ jn_pc = "idle"

PipeIdle ==
  /\ pl_platform = "idle"
  /\ pl_args = <<>>
  /\ pl_parents = <<>>
  /\ pl_out_dir = <<>>
  /\ pl_csv = <<>>
  /\ pl_canon = <<>>
  /\ pl_mailmerge = <<>>
  /\ pl_missing = <<>>
  /\ pl_final = <<>>
  /\ pl_started = <<>>
  /\ pl_pc = "idle"

SplitIdle ==
  /\ sp_input = <<>>
  /\ sp_info = <<>>
  /\ sp_files = <<>>
  /\ sp_extracted = <<>>
  /\ sp_missing = <<>>
  /\ sp_report = <<>>
  /\ sp_pc = "idle"

EmailIdle ==
  /\ em_values = <<>>
  /\ em_out = <<>>
  /\ em_pc = "idle"

ReaderIdle ==
  /\ rd_variant = "idle"
  /\ rd_bytes = <<>>
  /\ rd_decoder = "none"
  /\ rd_text = <<>>
  /\ rd_pc = "idle"

ToolsIdle == EmailIdle /\ ReaderIdle

InitNorm == NormInit /\ MergeIdle /\ JoinIdle /\ PipeIdle /\ SplitIdle /\ ToolsIdle

NextNorm ==
  \/ ApplyCanonDiv
  \/ ApplyNormalizeDiv
  \/ ApplyStripAccentsLower
  \/ ApplySquashKey

SpecNorm == InitNorm /\ [][NextNorm]_vars

\* C2: division canonicalisation maps "4 ÈME D", "4eme D" and ="4 D" to the
\* same value "4D" (claim as stated; the code yields "4ED" for the first two).
C2_NamedVariantsGive4D ==
  (nz_op \in {"canon_div", "normalize_div"} /\ Len(nz_val) >= 2
     /\ nz_val[1] \in {In_4_EME_D, In_4eme_D, In_Excel_4_D})
    => nz_val[2] = <<"4", "D">>

\* C22: canon_div, strip_accents_lower and squash_key are idempotent: applied
\* to its own result, each returns that result unchanged (claim as stated;
\* canon_div turns "4E ME D" into "4EMED" and "4EMED" into "4ED").
C22_NormalizerIdempotent ==
  (nz_op \in {"canon_div", "strip_accents_lower", "squash_key"} /\ Len(nz_val) >= 3)
    => nz_val[3] = nz_val[2]

\* ------------------------------------------------------------------------
\* _canon_email_list (Windows/merge_parents_4e.py)
\* ------------------------------------------------------------------------
Letters == UpperLetters \cup LowerLetters

\* [A-Z0-9._%+-] and [A-Z0-9.-] under re.I
EmailLocalChars == Letters \cup Digits \cup {".", "_", "%", "+", "-"}

EmailDomainChars == Letters \cup Digits \cup {".", "-"}

\* _EMAIL_RE.match(p): ^[A-Z0-9._%+-]+@[A-Z0-9.-]+\.[A-Z]{2,}$ ignoring case.
\* Neither side of "@" may hold another "@", and the final letters hold no
\* ".", so the "\." of the pattern is the last "." of p.
EmailMatch(p) ==
  LET ats == {i \in 1..Len(p) : p[i] = "@"}
  IN  /\ Cardinality(ats) = 1
      /\ LET a      == CHOOSE i \in ats : TRUE
             local  == SubSeq(p, 1, a - 1)
             domain == SubSeq(p, a + 1, Len(p))
             dots   == {i \in 1..Len(domain) : domain[i] = "."}
         IN  /\ Len(local) >= 1
             /\ \A i \in 1..Len(local) : local[i] \in EmailLocalChars
             /\ dots # {}
             /\ LET d    == Max(dots)
                    host == SubSeq(domain, 1, d - 1)
                    tld  == SubSeq(domain, d + 1, Len(domain))
                IN  /\ Len(host) >= 1
                    /\ \A i \in 1..Len(host) : host[i] \in EmailDomainChars
                    /\ Len(tld) >= 2
                    /\ \A i \in 1..Len(tld) : tld[i] \in Letters

\* the separators of re.split(r"[;,/\\\s]+", v)
EmailSeparators == {";", ",", "/", "\\"} \cup Whitespace

\* re.split on runs of separators (empty pieces only at the two ends)
RECURSIVE SplitEmails(_, _)
SplitEmails(s, cur) ==
  IF s = <<>> THEN <<cur>>
  ELSE IF Head(s) \in EmailSeparators
       THEN IF Len(s) >= 2 /\ s[2] \in EmailSeparators
            THEN SplitEmails(Tail(s), cur)
            ELSE <<cur>> \o SplitEmails(Tail(s), <<>>)
       ELSE SplitEmails(Tail(s), Append(cur, Head(s)))

\* the characters of .strip(".,;:()[]{}<>")
EmailPunctuation == {".", ",", ";", ":", "(", ")", "[", "]", "{", "}", "<", ">"}

RECURSIVE StripChars(_, _)
StripChars(s, chars) ==
  IF s # <<>> /\ Head(s) \in chars THEN StripChars(Tail(s), chars)
  ELSE IF s # <<>> /\ s[Len(s)] \in chars THEN StripChars(SubSeq(s, 1, Len(s) - 1), chars)
  ELSE s

\* p = (p or "").strip().strip(".,;:()[]{}<>")
EmailTrim(p) == StripChars(Strip(p), EmailPunctuation)

\* the pieces of every non-empty value, trimmed, in order
EmailParts(values) ==
  LET pieces == Flatten([k \in 1..Len(values) |->
                           IF values[k] = <<>> THEN <<>> ELSE SplitEmails(values[k], <<>>)])
  IN  SelectSeq([k \in 1..Len(pieces) |-> EmailTrim(pieces[k])], LAMBDA q : q # <<>>)

\* a key that tells apart the spellings of one address
SeenKeyExact(p) == p

\* p.lower(): the key kept in `seen`
SeenKey(p) == MapStr(LowerCh, p)

RECURSIVE CanonEmailsFrom(_, _, _)
CanonEmailsFrom(parts, seen, out) ==
  IF parts = <<>> THEN out
  ELSE LET q == Head(parts)
       IN  IF EmailMatch(q) /\ SeenKey(q) \notin seen
           THEN CanonEmailsFrom(Tail(parts), seen \cup {SeenKey(q)}, Append(out, q))
           ELSE CanonEmailsFrom(Tail(parts), seen, out)

canon_email_list(values) == CanonEmailsFrom(EmailParts(values), {}, <<>>)

\* addresses and near-addresses used as inputs
E_a_x_com == <<"a", "@", "x", ".", "c", "o", "m">>

E_A_X_COM == <<"A", "@", "X", ".", "C", "O", "M">>

E_b_y_com == <<"b", "@", "y", ".", "c", "o", "m">>

\* no top-level domain: not an address
E_a_x == <<"a", "@", "x">>

\* an address in angle brackets followed by a full stop
E_wrapped_b == <<"<">> \o E_b_y_com \o <<">", ".">>

\* ------------------------------------------------------------------------
\* merge_files (merge_parents_4e.py)
\* ------------------------------------------------------------------------
\* One row of a SIECLE export after _rename_columns: the three key columns
\* and the guardian e-mail columns ("Courriel repr. légal" as Courriel and,
\* where the export has it, "Courriel autre repr. légal" as Courriel2).
RowFields == {"Division", "Nom", "Prenom", "Courriel"}

\* _strip_all: every string cell is stripped (NFC leaves precomposed text as is)
StripRow(r) == [f \in DOMAIN r |-> Strip(r[f])]

StripAll(rows) == [i \in 1..Len(rows) |-> StripRow(rows[i])]

\* pd.concat(frames, ignore_index=True)
RECURSIVE Concat(_)
Concat(frames) == IF frames = <<>> THEN <<>> ELSE Head(frames) \o Concat(Tail(frames))

\* keyrow with the division taken as written (not canonicalised)
keyrow_raw_division(r) == <<r.Division, squash(r.Nom), squash(r.Prenom)>>

\* keyrow: (canonical division, squashed surname, squashed given name)
keyrow(r) == <<canon_div(r.Division), squash(r.Nom), squash(r.Prenom)>>

\* drop_duplicates(subset=["_key"]): the first row of every key is kept whole
RECURSIVE DropDuplicatesFrom(_, _)
DropDuplicatesFrom(rows, seen) ==
  IF rows = <<>> THEN <<>>
  ELSE IF keyrow(Head(rows)) \in seen
       THEN DropDuplicatesFrom(Tail(rows), seen)
       ELSE <<Head(rows)>> \o DropDuplicatesFrom(Tail(rows), seen \cup {keyrow(Head(rows))})

drop_duplicates(rows) == DropDuplicatesFrom(rows, {})

\* order of sort_values(by=["Division", "Nom de famille", "Prénom 1"])
RowLess(a, b) ==
  \/ StrLess(a.Division, b.Division)
  \/ a.Division = b.Division /\ StrLess(a.Nom, b.Nom)
  \/ a.Division = b.Division /\ a.Nom = b.Nom /\ StrLess(a.Prenom, b.Prenom)

\* stable insertion: r goes after every row that is not greater than it
RECURSIVE InsertSorted(_, _)
InsertSorted(r, sorted) ==
  IF sorted = <<>> THEN <<r>>
  ELSE IF RowLess(r, Head(sorted)) THEN <<r>> \o sorted
  ELSE <<Head(sorted)>> \o InsertSorted(r, Tail(sorted))

RECURSIVE SortFrom(_, _)
SortFrom(rows, acc) ==
  IF rows = <<>> THEN acc ELSE SortFrom(Tail(rows), InsertSorted(Head(rows), acc))

\* sort_values(..., kind="stable")
sort_values(rows) == SortFrom(rows, <<>>)

\* sep.join(strs)
RECURSIVE JoinStrs(_, _)
JoinStrs(strs, sep) ==
  IF strs = <<>> THEN <<>>
  ELSE IF Len(strs) = 1 THEN strs[1]
  ELSE strs[1] \o sep \o JoinStrs(Tail(strs), sep)

\* _add_emails_column: Emails = ";".join(_canon_email_list(c1, c2)), an
\* absent second column being created empty
add_emails_column(rows) ==
  [i \in 1..Len(rows) |->
     [f \in DOMAIN rows[i] \cup {"Emails"} |->
        IF f = "Emails"
        THEN JoinStrs(canon_email_list(<<rows[i].Courriel, Field(rows[i], "Courriel2", <<>>)>>),
                      <<";">>)
        ELSE rows[i][f]]]

\* frames -> rows written to parents_4e_merged.csv
merge_rows(files) ==
  add_emails_column(
    sort_values(drop_duplicates(Concat([i \in 1..Len(files) |-> StripAll(files[i])]))))

\* bounds and inputs of SpecMerge
MaxFiles == 2

MaxRows == 3

S_4D == <<"4", "D">>

S_4_D == <<"4", " ", "D">>

MergeDivisions == {S_4D, S_4_D}

MergeNoms == {<<"A", "b">>, <<"B">>}

MergePrenoms == {<<"E">>}

MergeCourriels == {<<>>, <<"a">>, <<"b">>}

\* the spaced spelling of the division is tried on the two-letter surname
MergeRowSet ==
  {r \in [Division : MergeDivisions, Nom : MergeNoms, Prenom : MergePrenoms,
          Courriel : MergeCourriels] : r.Division = S_4_D => Len(r.Nom) = 2}

RECURSIVE SumSizes(_)
SumSizes(sizes) == IF sizes = <<>> THEN 0 ELSE Head(sizes) + SumSizes(Tail(sizes))

\* the rows of `flat` cut into consecutive files of the given sizes
RECURSIVE CutFiles(_, _)
CutFiles(flat, sizes) ==
  IF sizes = <<>> THEN <<>>
  ELSE <<SubSeq(flat, 1, Head(sizes))>>
         \o CutFiles(SubSeq(flat, Head(sizes) + 1, Len(flat)), Tail(sizes))

\* a path that does not exist, or a file no reading attempt can parse
FileStatuses == {"ok", "missing", "unparsable"}

\* the first path that cannot be read ends merge_files with sys.exit(2); the
\* paths are visited in order and nothing is written before the loop ends
MergeExitsFirstPathOnly(statuses) ==
  statuses = <<>> \/ Head(statuses) # "ok"

MergeExits(statuses) ==
  statuses = <<>> \/ \E i \in DOMAIN statuses : statuses[i] # "ok"

\* every list of at most MaxFiles files holding at most MaxRows rows together;
\* a path that cannot be read contributes no row
MergeInit ==
  /\ \E k \in 0..MaxFiles :
       \E sizes \in [1..k -> 0..MaxRows] :
         /\ SumSizes(sizes) <= MaxRows
         /\ \E st \in [1..k -> FileStatuses] :
              /\ \A i \in 1..k : st[i] # "ok" => sizes[i] = 0
              /\ mg_status = st
         /\ \E flat \in [1..SumSizes(sizes) -> MergeRowSet] :
               csv_paths = CutFiles(flat, sizes)
  /\ merged = <<>>
  /\ mg_pc = "start"

\* merge_files with no path: sys.exit(2) before anything is written
MergeNoPaths ==
  /\ mg_pc = "start"
  /\ csv_paths = <<>>
  /\ mg_pc' = "exit2"
  /\ UNCHANGED <<csv_paths, merged, mg_status, OutsideMerge>>

\* merge_files meeting a path it cannot read: sys.exit(2), nothing written
MergeReadFails ==
  /\ mg_pc = "start"
  /\ csv_paths # <<>>
  /\ MergeExits(mg_status)
  /\ mg_pc' = "exit2"
  /\ UNCHANGED <<csv_paths, merged, mg_status, OutsideMerge>>

\* merge_files: read, rename, strip, concat, drop duplicates, sort, write
MergeFiles ==
  /\ mg_pc = "start"
  /\ ~MergeExits(mg_status)
  /\ merged' = merge_rows(csv_paths)
  /\ mg_pc' = "written"
  /\ UNCHANGED <<csv_paths, mg_status, OutsideMerge>>

InitMerge == MergeInit /\ NormIdle /\ JoinIdle /\ PipeIdle /\ SplitIdle /\ ToolsIdle

NextMerge ==
  \/ MergeNoPaths
  \/ MergeReadFails
  \/ MergeFiles

SpecMerge == InitMerge /\ [][NextMerge]_vars

\* ------------------------------------------------------------------------
\* build_mailmerge (Windows/build_mailmerge_4e_from_merged_v5.py)
\* ------------------------------------------------------------------------
\* A PDF file is its directory ("top" = directly under the base, "sub" = in a
\* sub-directory) and the "_"-separated segments of its name without ".pdf".
\* A looked-up attachment is <<>> (the code's "") or <<file>>.
MapGet(m, k) == IF k \in DOMAIN m THEN <<m[k]>> ELSE <<>>

\* rows kept by the reading loop: canonical division, stripped names, all non-empty
WinParentRow(r) ==
  [Division |-> canon_div(Strip(r.Division)), Nom |-> Strip(r.Nom), Prenom |-> Strip(r.Prenom)]

WinRetained(parents) ==
  SelectSeq([i \in 1..Len(parents) |-> WinParentRow(parents[i])],
            LAMBDA r : r.Division # <<>> /\ r.Nom # <<>> /\ r.Prenom # <<>>)

\* key of a scanned file: squash_key(parts[0], parts[1], parts[2])
WinPdfKey(p) == squash_key(<<Strip(p.parts[1]), Strip(p.parts[2]), Strip(p.parts[3])>>)

\* key of a parent row: squash_key(classe, nom, pre)
WinRowKey(r) == squash_key(<<r.Division, r.Nom, r.Prenom>>)

WinDisc(p) == strip_accents_lower(Strip(p.parts[Len(p.parts) - 1]))

WinIsFrancais(p) ==
  \/ StartsWith(WinDisc(p), <<"f", "r", "a", "n", "c", "a", "i", "s">>)
  \/ StartsWith(WinDisc(p), <<"f", "r", "a", "n">>)
  \/ StartsWith(WinDisc(p), <<"f", "r">>)

WinIsMaths(p) ==
  \/ StartsWith(WinDisc(p), <<"m", "a", "t", "h", "e", "m", "a", "t", "i", "q", "u", "e", "s">>)
  \/ StartsWith(WinDisc(p), <<"m", "a", "t", "h">>)
  \/ StartsWith(WinDisc(p), <<"m", "a", "t">>)

\* a file the scan takes into account: at least 5 segments and the run's year
WinScanned(p, annee) == Len(p.parts) >= 5 /\ Strip(p.parts[Len(p.parts)]) = annee

\* the scanning loop: later files overwrite earlier ones of the same key
RECURSIVE WinScan(_, _, _)
WinScan(pdfs, annee, maps) ==
  IF pdfs = <<>> THEN maps
  ELSE LET p == Head(pdfs)
           next ==
             IF ~WinScanned(p, annee) THEN maps
             ELSE IF WinIsFrancais(p)
                  THEN [maps EXCEPT !.fr = (WinPdfKey(p) :> p) @@ maps.fr]
             ELSE IF WinIsMaths(p)
                  THEN [maps EXCEPT !.ma = (WinPdfKey(p) :> p) @@ maps.ma]
             ELSE maps
       IN  WinScan(Tail(pdfs), annee, next)

WinMaps(pdfs, annee) == WinScan(pdfs, annee, [fr |-> <<>>, ma |-> <<>>])

WinOutRow(r, maps) ==
  [Classe |-> r.Division, Nom |-> r.Nom, Prenom |-> r.Prenom,
   PJ_francais |-> MapGet(maps.fr, WinRowKey(r)),
   PJ_math |-> MapGet(maps.ma, WinRowKey(r)),
   Attachments |-> MapGet(maps.fr, WinRowKey(r)) \o MapGet(maps.ma, WinRowKey(r))]

WinOutRows(rows, maps) == [i \in 1..Len(rows) |-> WinOutRow(rows[i], maps)]

WinMissRow(o) ==
  [Classe |-> o.Classe, Nom |-> o.Nom, Prenom |-> o.Prenom,
   ManqueFrancais |-> IF o.PJ_francais = <<>> THEN "oui" ELSE "",
   ManqueMaths |-> IF o.PJ_math = <<>> THEN "oui" ELSE ""]

WinMissRows(outs) ==
  LET incomplete == SelectSeq(outs, LAMBDA o : o.PJ_francais = <<>> \/ o.PJ_math = <<>>)
  IN  [i \in 1..Len(incomplete) |-> WinMissRow(incomplete[i])]

\* build_mailmerge stops when no parent row is usable
BuildMailmergeNoRows ==
  /\ jn_pc = "start"
  /\ jn_variant = "win"
  /\ WinRetained(jn_parents) = <<>>
  /\ jn_pc' = "exit"
  /\ UNCHANGED <<jn_variant, jn_parents, jn_pdfs, jn_annee, out_rows, miss_rows, OutsideJoin>>

\* build_mailmerge: read parents, scan PDFs, compose and write both CSVs
BuildMailmerge ==
  /\ jn_pc = "start"
  /\ jn_variant = "win"
  /\ WinRetained(jn_parents) # <<>>
  /\ LET outs == WinOutRows(WinRetained(jn_parents), WinMaps(jn_pdfs, jn_annee))
     IN  /\ out_rows' = outs
         /\ miss_rows' = WinMissRows(outs)
  /\ jn_pc' = "written"
  /\ UNCHANGED <<jn_variant, jn_parents, jn_pdfs, jn_annee, OutsideJoin>>

\* ------------------------------------------------------------------------
\* main of build_mailmerge_4e_from_merged_v5.py (macOS)
\* ------------------------------------------------------------------------
strip_accents(s) == MapStr(StripMn, s)

\* end (exclusive) of the run of non-digits that starts after position i
RECURSIVE NonDigitEnd(_, _)
NonDigitEnd(s, j) == IF j <= Len(s) /\ s[j] \notin Digits THEN NonDigitEnd(s, j + 1) ELSE j

\* positions where ([3-6])\D*([A-Z]) matches
DivMatches(s) ==
  {i \in 1..Len(s) : /\ s[i] \in {"3", "4", "5", "6"}
                     /\ \E j \in (i + 1)..(NonDigitEnd(s, i + 1) - 1) : s[j] \in UpperLetters}

\* re.sub(r"(?<=\d)\s+(?=[A-Z])", "", s)
RECURSIVE WsEnd(_, _)
WsEnd(s, j) == IF j <= Len(s) /\ s[j] \in Whitespace THEN WsEnd(s, j + 1) ELSE j

RECURSIVE DropDigitGap(_, _)
DropDigitGap(s, i) ==
  IF i > Len(s) THEN <<>>
  ELSE IF /\ s[i] \in Whitespace
          /\ i > 1
          /\ s[i - 1] \in Digits
          /\ WsEnd(s, i) <= Len(s)
          /\ s[WsEnd(s, i)] \in UpperLetters
       THEN DropDigitGap(s, WsEnd(s, i))
       ELSE <<s[i]>> \o DropDigitGap(s, i + 1)

norm_div(s0) ==
  IF s0 = <<>> THEN <<>>
  ELSE LET s == Strip(MapStr(UpperCh, strip_accents(s0)))
       IN  IF DivMatches(s) # {}
           THEN LET i == Min(DivMatches(s))
                    j == Max({k \in (i + 1)..(NonDigitEnd(s, i + 1) - 1) : s[k] \in UpperLetters})
                IN  <<s[i], s[j]>>
           ELSE DropDigitGap(s, 1)

norm_name_token(s) ==
  FilterStr(LAMBDA c : c \in LowerLetters, Strip(MapStr(LowerCh, strip_accents(s))))

IsTokenSeparator(c) == c \in Whitespace \/ c = "-"

\* re.split(r"[\s\-]+", s) without the empty pieces
RECURSIVE SplitTokens(_, _)
SplitTokens(s, cur) ==
  IF s = <<>> THEN (IF cur = <<>> THEN <<>> ELSE <<cur>>)
  ELSE IF IsTokenSeparator(Head(s))
       THEN (IF cur = <<>> THEN <<>> ELSE <<cur>>) \o SplitTokens(Tail(s), <<>>)
       ELSE SplitTokens(Tail(s), Append(cur, Head(s)))

split_name_field_to_tokens(piece) == SplitTokens(Strip(strip_accents(piece)), <<>>)

RECURSIVE InsertStr(_, _)
InsertStr(t, sorted) ==
  IF sorted = <<>> THEN <<t>>
  ELSE IF StrLess(t, Head(sorted)) THEN <<t>> \o sorted
  ELSE <<Head(sorted)>> \o InsertStr(t, Tail(sorted))

RECURSIVE SortedStrs(_)
SortedStrs(toks) == IF toks = <<>> THEN <<>> ELSE InsertStr(Head(toks), SortedStrs(Tail(toks)))

surname_key_from_tokens(tokens) ==
  Flatten(SortedStrs(SelectSeq([i \in 1..Len(tokens) |-> norm_name_token(tokens[i])],
                               LAMBDA t : t # <<>>)))

surname_key_from_csv_nom(nom) ==
  surname_key_from_tokens(SplitTokens(Strip(strip_accents(nom)), <<>>))

S_francais == <<"f", "r", "a", "n", "c", "a", "i", "s">>

S_mathematiques == <<"m", "a", "t", "h", "e", "m", "a", "t", "i", "q", "u", "e", "s">>

norm_disc(s0) ==
  LET s == Strip(MapStr(LowerCh, strip_accents(s0)))
  IN  IF StartsWith(s, <<"f", "r", "a", "n", "c">>) THEN S_francais
      ELSE IF StartsWith(s, <<"m", "a", "t", "h">>) THEN S_mathematiques
      ELSE s

\* the central blocks of a file name, flattened into sub-tokens
MacFlat(p) ==
  LET mid == SubSeq(p.parts, 2, Len(p.parts) - 2)
      flat == Flatten([b \in 1..Len(mid) |-> split_name_field_to_tokens(mid[b])])
  IN  IF flat = <<>> THEN mid ELSE flat

\* tokens i..j concatenated: the candidate given name
MacPrenConcat(flat, i, j) == Flatten([k \in 1..(j - i + 1) |-> norm_name_token(flat[i + k - 1])])

\* the tokens outside i..j: the candidate surname tokens
MacSurTokens(flat, i, j) == SubSeq(flat, 1, i - 1) \o SubSeq(flat, j + 1, Len(flat))

\* every key under which build_catalog registers one file
MacCatalogKeys(p) ==
  LET flat == MacFlat(p)
      divN == norm_div(p.parts[1])
      discN == norm_disc(p.parts[Len(p.parts) - 1])
      annee == Strip(p.parts[Len(p.parts)])
  IN  {<<divN, MacPrenConcat(flat, x[1], x[2]),
         surname_key_from_tokens(MacSurTokens(flat, x[1], x[2])), discN, annee>> :
         x \in {y \in (1..Len(flat)) \X (1..Len(flat)) :
                  y[1] <= y[2] /\ MacPrenConcat(flat, y[1], y[2]) # <<>>}}

\* build_catalog: files in enumeration order, a later file replaces an earlier one
RECURSIVE CatalogFrom(_, _)
CatalogFrom(pdfs, catalog) ==
  IF pdfs = <<>> THEN catalog
  ELSE LET p == Head(pdfs)
       IN  IF Len(p.parts) < 4 THEN CatalogFrom(Tail(pdfs), catalog)
           ELSE CatalogFrom(Tail(pdfs), [k \in MacCatalogKeys(p) |-> p] @@ catalog)

build_catalog(pdfs) == CatalogFrom(pdfs, <<>>)

\* number of example file names listed in a missing row
ExamplesLimit == 12

by_div(pdfs, divN) ==
  LET same == SelectSeq(pdfs, LAMBDA p : Len(p.parts) >= 4 /\ norm_div(p.parts[1]) = divN)
  IN  SubSeq(same, 1, IF Len(same) < ExamplesLimit THEN Len(same) ELSE ExamplesLimit)

\* read_input_csv then the reading part of the loop body
MacParentRow(r) ==
  [Division |-> Strip(norm_div(r.Division)), Nom |-> Strip(r.Nom), Prenom |-> Strip(r.Prenom),
   Courriel |-> Strip(Field(r, "Courriel", <<>>)),
   Courriel2 |-> Strip(Field(r, "Courriel2", <<>>))]

MacRetained(parents) ==
  SelectSeq([i \in 1..Len(parents) |-> MacParentRow(parents[i])],
            LAMBDA r : r.Division # <<>> /\ r.Nom # <<>> /\ r.Prenom # <<>>)

\* the set alt_sur_keys of the fallback
MacAltSurKeys(nom_raw) ==
  LET tokens == SplitTokens(Strip(strip_accents(nom_raw)), <<>>)
  IN  {norm_name_token(tokens[i]) : i \in 1..Len(tokens)} \ {<<>>}

\* the orders in which a Python set of strings can be iterated
SetOrders(S) ==
  {q \in [1..Cardinality(S) -> S] : \A i, j \in 1..Cardinality(S) : q[i] = q[j] => i = j}

\* first hit of the fallback loop over the keys in iteration order
RECURSIVE MacFallback(_, _, _, _, _, _)
MacFallback(catalog, divN, prenN, order, disc, annee) ==
  IF order = <<>> THEN <<>>
  ELSE IF <<divN, prenN, Head(order), disc, annee>> \in DOMAIN catalog
       THEN <<catalog[<<divN, prenN, Head(order), disc, annee>>]>>
       ELSE MacFallback(catalog, divN, prenN, Tail(order), disc, annee)

MacLookup(catalog, divN, prenN, sur_key, order, disc, annee) ==
  IF <<divN, prenN, sur_key, disc, annee>> \in DOMAIN catalog
  THEN <<catalog[<<divN, prenN, sur_key, disc, annee>>]>>
  ELSE MacFallback(catalog, divN, prenN, order, disc, annee)

S_Francais == <<"F", "r", "a", "n", "ccedil", "a", "i", "s">>

S_Mathematiques == <<"M", "a", "t", "h", "eacute", "m", "a", "t", "i", "q", "u", "e", "s">>

\* the expected file names of a missing row; <<>> is the empty cell
MacAttendu1(r, divN, disc, annee) == <<divN, MapStr(UpperCh, r.Nom), r.Prenom, disc, annee>>

MacAttendu2(r, divN, disc, annee) ==
  LET nom_tokens == SplitTokens(Strip(r.Nom), <<>>)
  IN  IF Len(nom_tokens) >= 2
      THEN <<divN, MapStr(UpperCh, nom_tokens[1]), r.Prenom,
             MapStr(UpperCh, nom_tokens[Len(nom_tokens)]), disc, annee>>
      ELSE <<>>

\* one pass of the loop body for a retained row, the fallback iterating in `order`
MacRowResult(r, catalog, pdfs, annee, order) ==
  LET divN == norm_div(r.Division)
      prenN == norm_name_token(r.Prenom)
      sur_key == surname_key_from_csv_nom(r.Nom)
      pj_fr == MacLookup(catalog, divN, prenN, sur_key, order, S_francais, annee)
      pj_ma == MacLookup(catalog, divN, prenN, sur_key, order, S_mathematiques, annee)
  IN  [out |-> [Classe |-> divN, Nom |-> MapStr(UpperCh, r.Nom), Prenom |-> r.Prenom,
                Emails |-> JoinStrs(SelectSeq(<<r.Courriel, r.Courriel2>>, LAMBDA e : e # <<>>),
                                    <<";">>),
                PJ_francais |-> pj_fr, PJ_math |-> pj_ma, Attachments |-> pj_fr \o pj_ma,
                Annee |-> annee, Objet |-> <<MapStr(UpperCh, r.Nom), r.Prenom, divN>>,
                CorpsMessage |-> "MESSAGE_TYPE"],
       miss |-> IF pj_fr = <<>> /\ pj_ma = <<>>
                THEN <<[Division |-> divN, Nom |-> r.Nom, Prenom |-> r.Prenom,
                        Attendu_Fr_1 |-> MacAttendu1(r, divN, S_Francais, annee),
                        Attendu_Fr_2 |-> MacAttendu2(r, divN, S_Francais, annee),
                        Attendu_Ma_1 |-> MacAttendu1(r, divN, S_Mathematiques, annee),
                        Attendu_Ma_2 |-> MacAttendu2(r, divN, S_Mathematiques, annee),
                        ExemplesFichiersDansDivision |-> by_div(pdfs, divN)]>>
                ELSE <<>>]

\* the results the loop can produce for the retained rows, one per row
RECURSIVE MacResults(_, _, _, _)
MacResults(rows, catalog, pdfs, annee) ==
  IF rows = <<>> THEN {<<>>}
  ELSE {<<MacRowResult(Head(rows), catalog, pdfs, annee, order)>> \o rest :
          order \in SetOrders(MacAltSurKeys(Head(rows).Nom)),
          rest \in MacResults(Tail(rows), catalog, pdfs, annee)}

\* main: index the PDFs, read the CSV, look every row up, write both CSVs
MacMain ==
  /\ jn_pc = "start"
  /\ jn_variant = "mac"
  /\ \E res \in MacResults(MacRetained(jn_parents), build_catalog(jn_pdfs), jn_pdfs, jn_annee) :
       /\ out_rows' = [i \in 1..Len(res) |-> res[i].out]
       /\ miss_rows' = Flatten([i \in 1..Len(res) |-> res[i].miss])
  /\ jn_pc' = "written"
  /\ UNCHANGED <<jn_variant, jn_parents, jn_pdfs, jn_annee, OutsideJoin>>

\* ---- bounded inputs of the join ----
MaxParents == 2

MaxPdfs == 2

S_2025 == <<"2", "0", "2", "5">>

S_2024 == <<"2", "0", "2", "4">>

ParentRow(d, n, p) == [Division |-> d, Nom |-> n, Prenom |-> p]

JoinParentSet ==
  {ParentRow(S_4D, <<"A", "B">>, <<"A">>),
   ParentRow(S_4D, <<"A">>, <<"B", "A">>),
   ParentRow(S_4_D, <<"B">>, <<"E">>),
   ParentRow(S_4D, <<"B", "-", "C">>, <<"E">>),
   ParentRow(S_4D, <<>>, <<"A">>)}

PdfFile(d, parts) == [dir |-> d, parts |-> parts]

JoinPdfSet ==
  {PdfFile("top", <<S_4D, <<"A">>, <<"B", "A">>, S_Francais, S_2025>>),
   PdfFile("top", <<S_4D, <<"A">>, <<"B", "A">>, S_Mathematiques, S_2025>>),
   PdfFile("top", <<S_4D, <<"B">>, <<"E">>, S_Francais, S_2025>>),
   PdfFile("sub", <<S_4D, <<"B">>, <<"E">>, S_Francais, S_2025>>),
   PdfFile("sub", <<S_4D, <<"B">>, <<"E">>, S_Mathematiques, S_2025>>),
   PdfFile("top", <<S_4D, <<"C">>, <<"E">>, S_Mathematiques, S_2025>>),
   PdfFile("top", <<S_4D, <<"B">>, <<"E">>, S_Francais, S_2024>>),
   PdfFile("top", <<S_4D, <<"B">>, S_Francais, S_2025>>)}

\* sequences of at most n elements of S
RECURSIVE SeqsUpTo(_, _)
SeqsUpTo(S, n) ==
  IF n = 0 THEN {<<>>}
  ELSE SeqsUpTo(S, n - 1) \cup {Append(q, x) : q \in {r \in SeqsUpTo(S, n - 1) : Len(r) = n - 1}, x \in S}

NoRepeat(q) == \A i, j \in 1..Len(q) : q[i] = q[j] => i = j

JoinInit ==
  /\ jn_variant \in {"win", "mac"}
  /\ jn_parents \in SeqsUpTo(JoinParentSet, MaxParents)
  /\ jn_pdfs \in {q \in SeqsUpTo(JoinPdfSet, MaxPdfs) : NoRepeat(q)}
  /\ jn_annee = S_2025
  /\ out_rows = <<>>
  /\ miss_rows = <<>>
  /\ jn_pc = "start"

InitJoin == JoinInit /\ NormIdle /\ MergeIdle /\ PipeIdle /\ SplitIdle /\ ToolsIdle

NextJoin ==
  \/ BuildMailmergeNoRows
  \/ BuildMailmerge
  \/ MacMain

SpecJoin == InitJoin /\ [][NextJoin]_vars

\* C1: in build_mailmerge a record is joined to a document iff the squashed
\* division, surname and given name equal the document's class, surname and
\* given-name segments one by one; no record gets a document whose triple
\* differs in a component.
ComponentsEqual(o, p) ==
  /\ squash(o.Classe) = squash(p.parts[1])
  /\ squash(o.Nom) = squash(p.parts[2])
  /\ squash(o.Prenom) = squash(p.parts[3])

C1_JoinedIffComponentsEqual ==
  (jn_pc = "written" /\ jn_variant = "win") =>
    \A i \in DOMAIN out_rows :
      LET o == out_rows[i]
          frDocs == {p \in Range(jn_pdfs) : WinScanned(p, jn_annee) /\ WinIsFrancais(p)}
          maDocs == {p \in Range(jn_pdfs) :
                      WinScanned(p, jn_annee) /\ ~WinIsFrancais(p) /\ WinIsMaths(p)}
      IN  /\ \A p \in Range(o.PJ_francais) \cup Range(o.PJ_math) : ComponentsEqual(o, p)
          /\ (\E p \in frDocs : ComponentsEqual(o, p)) => o.PJ_francais # <<>>
          /\ (\E p \in maDocs : ComponentsEqual(o, p)) => o.PJ_math # <<>>

\* C8: a retained record is in the missing report iff its French or its Math
\* document was not found, a complete record never is, and the report marks
\* each subject as missing iff that subject's document is absent.
MissIdentity(m) ==
  <<IF "Classe" \in DOMAIN m THEN m.Classe ELSE m.Division, MapStr(UpperCh, m.Nom), m.Prenom>>

OutIdentity(o) == <<o.Classe, MapStr(UpperCh, o.Nom), o.Prenom>>

MissRowsOf(o) == {m \in Range(miss_rows) : MissIdentity(m) = OutIdentity(o)}

Marked(m, f) == f \in DOMAIN m /\ m[f] = "oui"

C8_MissingIffIncomplete ==
  jn_pc = "written" =>
    \A i \in DOMAIN out_rows :
      LET o == out_rows[i]
      IN  /\ MissRowsOf(o) # {} <=> (o.PJ_francais = <<>> \/ o.PJ_math = <<>>)
          /\ \A m \in MissRowsOf(o) :
                /\ Marked(m, "ManqueFrancais") <=> o.PJ_francais = <<>>
                /\ Marked(m, "ManqueMaths") <=> o.PJ_math = <<>>

\* C9: every student missing one or both subject documents has, in the
\* missing report, the expected document file name for French and for Math.
HasExpectedNames(m) ==
  /\ "Attendu_Fr_1" \in DOMAIN m /\ m.Attendu_Fr_1 # <<>>
  /\ "Attendu_Ma_1" \in DOMAIN m /\ m.Attendu_Ma_1 # <<>>

C9_ExpectedNamesForBothSubjects ==
  jn_pc = "written" =>
    \A i \in DOMAIN out_rows :
      (out_rows[i].PJ_francais = <<>> \/ out_rows[i].PJ_math = <<>>) =>
        \E m \in MissRowsOf(out_rows[i]) : HasExpectedNames(m)

\* the documents attached to each output row
AttachedDocs(rows) == [k \in 1..Len(rows) |-> <<rows[k].PJ_francais, rows[k].PJ_math>>]

\* the same files enumerated in another order
Reordered(pdfs) ==
  {[i \in 1..Len(pdfs) |-> pdfs[f[i]]] : f \in SetOrders(1..Len(pdfs))}

\* the attachments the join can produce on the parents and the files `pdfs`
JoinAttachments(variant, parents, pdfs, annee) ==
  IF variant = "win"
  THEN {AttachedDocs(WinOutRows(WinRetained(parents), WinMaps(pdfs, annee)))}
  ELSE {AttachedDocs([i \in 1..Len(res) |-> res[i].out]) :
          res \in MacResults(MacRetained(parents), build_catalog(pdfs), pdfs, annee)}

\* C26: for fixed parent records and a fixed set of PDF files, the French and
\* Math documents attached to each student are the same whatever the order in
\* which the files are enumerated, also when several files have the same key
\* and subject (claim as stated; the last file enumerated is the one kept).
C26_JoinOrderIndependent ==
  jn_pc = "written" =>
    \A q \in Reordered(jn_pdfs) :
      JoinAttachments(jn_variant, jn_parents, q, jn_annee) = {AttachedDocs(out_rows)}

\* the parent rows whose canonical division, surname and given name are all
\* non-empty, in input order
UsableRow(r) ==
  /\ canon_div(Strip(r.Division)) # <<>>
  /\ Strip(r.Nom) # <<>>
  /\ Strip(r.Prenom) # <<>>

UsableParents == SelectSeq(jn_parents, UsableRow)

\* C25: the join emits exactly one output row for each parent row whose
\* canonical division, surname and given name are all non-empty, in input
\* order, and none for the others; every output row has the three values
\* non-empty; a dropped row raises no error (claim as stated; the Windows
\* join exits with an error when every row is dropped).
C25_OneOutputRowPerUsableRow ==
  jn_pc \in {"written", "exit"} =>
    /\ (\E i \in DOMAIN jn_parents : ~UsableRow(jn_parents[i])) => jn_pc = "written"
    /\ jn_pc = "written" =>
         /\ Len(out_rows) = Len(UsableParents)
         /\ \A k \in DOMAIN out_rows :
              /\ out_rows[k].Classe # <<>> /\ out_rows[k].Nom # <<>> /\ out_rows[k].Prenom # <<>>
              /\ squash(out_rows[k].Classe) = squash(canon_div(UsableParents[k].Division))
              /\ MapStr(UpperCh, out_rows[k].Nom) = MapStr(UpperCh, Strip(UsableParents[k].Nom))
              /\ out_rows[k].Prenom = Strip(UsableParents[k].Prenom)

\* the input rows in ingestion order (file order, then row order)
Ingested == Concat([i \in 1..Len(csv_paths) |-> StripAll(csv_paths[i])])

\* the identity key of the data model: canonical division, folded surname,
\* folded given name
IdentityKey(r) == <<canon_div(r.Division), squash(r.Nom), squash(r.Prenom)>>

KeyGroup(k) == {i \in 1..Len(Ingested) : IdentityKey(Ingested[i]) = k}

MergedOf(k) == {j \in 1..Len(merged) : IdentityKey(merged[j]) = k}

\* C3: after merge_files no two merged rows share an identity key, and every
\* identity key of an input row occurs in exactly one merged row.
C3_OneRowPerKey ==
  mg_pc = "written" =>
    LET in_keys  == {IdentityKey(r) : r \in Range(Ingested)}
        out_keys == [j \in 1..Len(merged) |-> IdentityKey(merged[j])]
    IN  /\ \A i, j \in 1..Len(merged) : out_keys[i] = out_keys[j] => i = j
        /\ \A k \in in_keys : Cardinality({j \in 1..Len(merged) : out_keys[j] = k}) = 1

\* C3 witness: two input rows of one key, spelled differently, were merged
C3_Witness ==
  /\ mg_pc = "written"
  /\ \E i, j \in 1..Len(Ingested) :
        /\ i < j
        /\ IdentityKey(Ingested[i]) = IdentityKey(Ingested[j])
        /\ Ingested[i].Division # Ingested[j].Division
  /\ Len(merged) >= 2

FirstNonEmpty(k, f) ==
  LET S == {i \in KeyGroup(k) : Ingested[i][f] # <<>>}
  IN  IF S = {} THEN <<>> ELSE Ingested[CHOOSE i \in S : \A j \in S : i <= j][f]

\* C4 (claim as stated): for every key and field, if some row of the key has a
\* non-empty value, the merged record has the first non-empty value in
\* ingestion order.
C4_FirstNonEmptyWins ==
  mg_pc = "written" =>
    \A j \in 1..Len(merged) : \A f \in RowFields :
      FirstNonEmpty(IdentityKey(merged[j]), f) # <<>> =>
        merged[j][f] = FirstNonEmpty(IdentityKey(merged[j]), f)

\* C5 (claim as stated): when two input rows of one key both have a non-empty
\* value for a field, the merged record carries the value of the earlier one
\* (the first of the non-empty values in file order, then row order).
C5_EarlierNonEmptyWins ==
  mg_pc = "written" =>
    \A j \in 1..Len(merged) : \A f \in RowFields :
      Cardinality({i \in KeyGroup(IdentityKey(merged[j])) : Ingested[i][f] # <<>>}) >= 2 =>
        merged[j][f] = FirstNonEmpty(IdentityKey(merged[j]), f)

\* the positions of the input paths that cannot be opened or parsed
UnreadablePaths == {i \in DOMAIN mg_status : mg_status[i] # "ok"}

\* C20: when one of the input files of merge_files cannot be opened or parsed,
\* at whatever position in the list, the run ends with a non-zero exit status
\* and has written no parents_4e_merged.csv; it ends there, so that nothing
\* runs after it.
C20_UnreadableFileStopsMerge ==
  UnreadablePaths # {} =>
    /\ merged = <<>>
    /\ mg_pc \in {"start", "exit2"}
    /\ mg_pc = "exit2" => ~ENABLED NextMerge

\* a readable first file holding rows, followed by a path that does not exist
C20_Witness ==
  /\ mg_pc = "exit2"
  /\ Len(csv_paths) = 2
  /\ csv_paths[1] # <<>>
  /\ mg_status = <<"ok", "missing">>
  /\ merged = <<>>

\* ------------------------------------------------------------------------
\* main of pipeline_evalnat.py (both platforms)
\* ------------------------------------------------------------------------
S_6A == <<"6", "A">>

S_6B == <<"6", "B">>

ClassOf(p) == p.parts[1]

\* scan_pdf_labels: glob("*.pdf") sees the files directly under the directory
scan_pdf_labels(base) == {ClassOf(p) : p \in {q \in Range(base) : q.dir = "top" /\ Len(q.parts) >= 2}}

\* p.name.startswith(classe + "_"), a name being its segments joined by "_"
NameStartsWithClass(p, classe) == Len(p.parts) >= 2 /\ ClassOf(p) = classe

\* the three fatal cases of the document-class guard
GuardAborts(out_dir, classe) ==
  \/ out_dir = <<>>
  \/ ~\E p \in Range(out_dir) : NameStartsWithClass(p, classe)
  \/ scan_pdf_labels(out_dir) \ {classe} # {}

\* the division normalisation written out in the filter loop
PipeCanonDiv(div) == canon_div(div)

FilterRows(rows, classe) ==
  LET kept == SelectSeq(rows, LAMBDA r : PipeCanonDiv(Strip(r.Division)) = MapStr(UpperCh, classe))
  IN  [i \in 1..Len(kept) |-> [kept[i] EXCEPT !.Division = classe]]

FilterNeverAborts(canon) == FALSE

\* kept == 0: the anti-mismatch guard of the class filter
FilterAborts(canon) == Len(canon) = 0

DiscsFr == {S_Francais, <<"F", "r", "a", "n", "c", "a", "i", "s">>, <<"F", "r", "a", "n", "a", "i", "s">>}

DiscsMa ==
  {S_Mathematiques,
   <<"M", "a", "t", "h", "e", "m", "a", "t", "i", "q", "u", "e", "s">>,
   <<"M", "a", "t", "h", "m", "a", "t", "i", "q", "u", "e", "s">>,
   <<"M", "a", "t", "h", "s">>}

\* count_pdfs_by_disc: glob(classe_*_annee.pdf) directly under the directory
CountedPdfs(base, classe, annee, discs) ==
  Cardinality({i \in 1..Len(base) :
                 /\ base[i].dir = "top"
                 /\ Len(base[i].parts) >= 4
                 /\ base[i].parts[1] = classe
                 /\ base[i].parts[Len(base[i].parts)] = annee
                 /\ base[i].parts[Len(base[i].parts) - 1] \in discs})

\* --preflight-threshold, default 0.8, as a fraction
PreflightThresholdNum == 8

PreflightThresholdDen == 10

BelowThreshold(count, eff) == count * PreflightThresholdDen < PreflightThresholdNum * eff

\* an alert only when both subjects are below the threshold
PreflightAlertsBoth(base, classe, annee, kept) ==
  /\ BelowThreshold(CountedPdfs(base, classe, annee, DiscsFr), kept)
  /\ BelowThreshold(CountedPdfs(base, classe, annee, DiscsMa), kept)

PreflightAlerts(base, classe, annee, kept) ==
  \/ BelowThreshold(CountedPdfs(base, classe, annee, DiscsFr), kept)
  \/ BelowThreshold(CountedPdfs(base, classe, annee, DiscsMa), kept)

\* squash of the pipeline: the same folding as squash_key on one value
PipeKey(div, nom, pre) == <<squash(Strip(div)), squash(Strip(nom)), squash(Strip(pre))>>

\* emails_index: later rows of the canon CSV replace earlier ones of the same key
RECURSIVE EmailsIndex(_, _)
EmailsIndex(canon, index) ==
  IF canon = <<>> THEN index
  ELSE LET r == Head(canon)
           usable == Strip(r.Division) # <<>> /\ Strip(r.Nom) # <<>> /\ Strip(r.Prenom) # <<>>
           em == JoinStrs(SelectSeq(<<Strip(r.Courriel), Strip(Field(r, "Courriel2", <<>>))>>,
                                    LAMBDA e : e # <<>>),
                          <<";", " ">>)
       IN  IF usable /\ em # <<>>
           THEN EmailsIndex(Tail(canon), (PipeKey(r.Division, r.Nom, r.Prenom) :> em) @@ index)
           ELSE EmailsIndex(Tail(canon), index)

\* one row of mailmerge_<classe>_with_emails.csv
FillRow(r, index, message, platform, classe) ==
  LET key == PipeKey(r.Classe, r.Nom, r.Prenom)
      emails == IF Strip(Field(r, "Emails", <<>>)) = <<>>
                THEN (IF key \in DOMAIN index THEN index[key] ELSE <<>>)
                ELSE r.Emails
      corps == IF message # "none" THEN message ELSE Field(r, "CorpsMessage", "")
      objet == IF platform = "win" /\ Field(r, "Objet", <<>>) = <<>>
               THEN <<Strip(r.Nom), Strip(r.Prenom),
                      IF Strip(r.Classe) # <<>> THEN Strip(r.Classe) ELSE classe>>
               ELSE Field(r, "Objet", <<>>)
  IN  [Classe |-> r.Classe, Nom |-> r.Nom, Prenom |-> r.Prenom, Emails |-> emails,
       PJ_francais |-> r.PJ_francais, PJ_math |-> r.PJ_math, Attachments |-> r.Attachments,
       Objet |-> objet, CorpsMessage |-> corps]

FillRows(rows, canon, message, platform, classe) ==
  [i \in 1..Len(rows) |-> FillRow(rows[i], EmailsIndex(canon, <<>>), message, platform, classe)]

\* The attachment check splits each cell on "," and tests the paths.  The
\* Windows join writes Attachments as "fr, ma"; the macOS join writes
\* "fr;ma", which the check takes for one path, and no such file exists.
\* The files named in PJ_francais and PJ_math exist: nothing deletes them.
MissingPj(rows, platform) ==
  {i \in 1..Len(rows) : platform = "mac" /\ rows[i].PJ_francais # <<>> /\ rows[i].PJ_math # <<>>}

\* ---- bounded inputs of the pipeline ----
MaxPipeRows == 2

MaxPipePdfs == 2

PipeRow(d, n, p, c1, c2) ==
  [Division |-> d, Nom |-> n, Prenom |-> p, Courriel |-> c1, Courriel2 |-> c2]

\* both guardians with one address, no address at all, one address that is
\* not an address ("a@x")
PipeRowSet ==
  {PipeRow(S_6A, <<"B">>, <<"E">>, E_a_x_com, E_A_X_COM),
   PipeRow(<<"6", " ", "A">>, <<"C">>, <<"E">>, <<>>, <<>>),
   PipeRow(S_6B, <<"B">>, <<"E">>, E_b_y_com, E_a_x)}

PipePdfSet ==
  {PdfFile("top", <<S_6A, <<"B">>, <<"E">>, S_Francais, S_2025>>),
   PdfFile("top", <<S_6A, <<"B">>, <<"E">>, S_Mathematiques, S_2025>>),
   PdfFile("top", <<S_6B, <<"B">>, <<"E">>, S_Francais, S_2025>>),
   PdfFile("sub", <<S_6B, <<"B">>, <<"E">>, S_Francais, S_2025>>)}

\* the files split_pdf can write for the run's class: directly under --out-dir
SplitOutputs(classe) ==
  {PdfFile("top", <<classe, <<"C">>, <<"E">>, S_Francais, S_2025>>),
   PdfFile("top", <<classe, <<"C">>, <<"E">>, S_Mathematiques, S_2025>>)}

PipeArgs ==
  [classe : {S_6A, S_6B}, annee : {S_2025}, no_split : BOOLEAN, no_merge : BOOLEAN,
   strict : BOOLEAN, run_tb : BOOLEAN, message : {"none", "common"},
   parents_readable : BOOLEAN]

\* the statuses merge_files meets on the --parents export of the run
ParentsStatuses(args) == <<IF args.parents_readable THEN "ok" ELSE "unparsable">>

PipeInit ==
  /\ pl_platform \in {"win", "mac"}
  /\ pl_args \in PipeArgs
  /\ pl_parents \in SeqsUpTo(PipeRowSet, MaxPipeRows)
  /\ ~pl_args.parents_readable =>
       pl_platform = "win" /\ ~pl_args.no_merge /\ pl_parents = <<>>
  /\ pl_out_dir \in {q \in SeqsUpTo(PipePdfSet, MaxPipePdfs) : NoRepeat(q)}
  /\ pl_csv = <<>>
  /\ pl_canon = <<>>
  /\ pl_mailmerge = <<>>
  /\ pl_missing = <<>>
  /\ pl_final = <<>>
  /\ pl_started = <<>>
  /\ pl_pc = "split"

\* stage 1: split_pdf writes the per-student files, unless --no-split
PipeSplit ==
  /\ pl_pc = "split"
  /\ IF pl_args.no_split
     THEN UNCHANGED <<pl_out_dir, pl_started>>
     ELSE /\ \E gen \in {q \in SeqsUpTo(SplitOutputs(pl_args.classe), 2) : NoRepeat(q)} :
               pl_out_dir' = pl_out_dir \o SelectSeq(gen, LAMBDA f : f \notin Range(pl_out_dir))
          /\ pl_started' = Append(pl_started, "split")
  /\ pl_pc' = "guard"
  /\ UNCHANGED <<pl_platform, pl_args, pl_parents, pl_csv, pl_canon, pl_mailmerge, pl_missing,
                 pl_final, OutsidePipe>>

\* the document-class guard on the output directory
PipeGuard ==
  /\ pl_pc = "guard"
  /\ pl_started' = Append(pl_started, "guard")
  /\ pl_pc' = IF GuardAborts(pl_out_dir, pl_args.classe) THEN "aborted" ELSE "merge"
  /\ UNCHANGED <<pl_platform, pl_args, pl_parents, pl_out_dir, pl_csv, pl_canon, pl_mailmerge,
                 pl_missing, pl_final, OutsidePipe>>

\* stage 2: merge_files on the parents exports, unless --no-merge with --csv-in.
\* The merge module of the macOS tree defines no merge_files: the call raises
\* and the run ends with exit status 1. The SystemExit of merge_files is not
\* caught by the pipeline: the run ends there with exit status 2.
PipeMerge ==
  /\ pl_pc = "merge"
  /\ IF pl_args.no_merge
     THEN /\ pl_csv' = pl_parents
          /\ pl_pc' = "filter"
          /\ UNCHANGED pl_started
     ELSE /\ pl_started' = Append(pl_started, "merge")
          /\ IF pl_platform = "mac" \/ MergeExits(ParentsStatuses(pl_args))
             THEN pl_pc' = "aborted" /\ UNCHANGED pl_csv
             ELSE pl_pc' = "filter" /\ pl_csv' = merge_rows(<<pl_parents>>)
  /\ UNCHANGED <<pl_platform, pl_args, pl_parents, pl_out_dir, pl_canon, pl_mailmerge,
                 pl_missing, pl_final, OutsidePipe>>

\* the class filter: keep the rows of the class, stop when there is none
PipeFilter ==
  /\ pl_pc = "filter"
  /\ pl_started' = Append(pl_started, "filter")
  /\ pl_canon' = FilterRows(pl_csv, pl_args.classe)
  /\ pl_pc' = IF FilterAborts(FilterRows(pl_csv, pl_args.classe)) THEN "aborted" ELSE "preflight"
  /\ UNCHANGED <<pl_platform, pl_args, pl_parents, pl_out_dir, pl_csv, pl_mailmerge,
                 pl_missing, pl_final, OutsidePipe>>

\* the preflight count: a warning, fatal only with --strict
PipePreflight ==
  /\ pl_pc = "preflight"
  /\ pl_started' = Append(pl_started, "preflight")
  /\ pl_pc' = IF /\ PreflightAlerts(pl_out_dir, pl_args.classe, pl_args.annee, Len(pl_canon))
                 /\ pl_args.strict
              THEN "aborted" ELSE "build"
  /\ UNCHANGED <<pl_platform, pl_args, pl_parents, pl_out_dir, pl_csv, pl_canon, pl_mailmerge,
                 pl_missing, pl_final, OutsidePipe>>

\* stage 3: run_build_mailmerge with the platform's join
PipeBuild ==
  /\ pl_pc = "build"
  /\ pl_started' = Append(pl_started, "build")
  /\ IF pl_platform = "win"
     THEN IF WinRetained(pl_canon) = <<>>
          THEN pl_pc' = "aborted" /\ UNCHANGED <<pl_mailmerge, pl_missing>>
          ELSE LET outs == WinOutRows(WinRetained(pl_canon), WinMaps(pl_out_dir, pl_args.annee))
               IN  /\ pl_mailmerge' = outs
                   /\ pl_missing' = WinMissRows(outs)
                   /\ pl_pc' = "fill"
     ELSE \E res \in MacResults(MacRetained(pl_canon), build_catalog(pl_out_dir), pl_out_dir,
                                 pl_args.annee) :
            /\ pl_mailmerge' = [i \in 1..Len(res) |-> res[i].out]
            /\ pl_missing' = Flatten([i \in 1..Len(res) |-> res[i].miss])
            /\ pl_pc' = "fill"
  /\ UNCHANGED <<pl_platform, pl_args, pl_parents, pl_out_dir, pl_csv, pl_canon, pl_final,
                 OutsidePipe>>

\* stage 3 bis: fill Emails and CorpsMessage, write the completed CSV
PipeFill ==
  /\ pl_pc = "fill"
  /\ pl_started' = Append(pl_started, "fill")
  /\ pl_final' = FillRows(pl_mailmerge, pl_canon, pl_args.message, pl_platform, pl_args.classe)
  /\ pl_pc' = "attach"
  /\ UNCHANGED <<pl_platform, pl_args, pl_parents, pl_out_dir, pl_csv, pl_canon, pl_mailmerge,
                 pl_missing, OutsidePipe>>

\* the attachment check: fatal only with --strict
PipeCheckAttachments ==
  /\ pl_pc = "attach"
  /\ pl_pc' = IF MissingPj(pl_final, pl_platform) # {} /\ pl_args.strict THEN "aborted" ELSE "tb"
  /\ UNCHANGED <<pl_platform, pl_args, pl_parents, pl_out_dir, pl_csv, pl_canon, pl_mailmerge,
                 pl_missing, pl_final, pl_started, OutsidePipe>>

\* a Thunderbird stage that would also run at the end of an aborted run
PipeRunTbAfterAbort ==
  /\ pl_pc \in {"tb", "aborted"}
  /\ pl_started' = IF pl_args.run_tb THEN Append(pl_started, "tb") ELSE pl_started
  /\ pl_pc' = "done"
  /\ UNCHANGED <<pl_platform, pl_args, pl_parents, pl_out_dir, pl_csv, pl_canon, pl_mailmerge,
                 pl_missing, pl_final, OutsidePipe>>

\* stage 4: open the Thunderbird drafts when --run-tb is given
PipeRunTb ==
  /\ pl_pc = "tb"
  /\ pl_started' = IF pl_args.run_tb THEN Append(pl_started, "tb") ELSE pl_started
  /\ pl_pc' = "done"
  /\ UNCHANGED <<pl_platform, pl_args, pl_parents, pl_out_dir, pl_csv, pl_canon, pl_mailmerge,
                 pl_missing, pl_final, OutsidePipe>>

Init == PipeInit /\ NormIdle /\ MergeIdle /\ JoinIdle /\ SplitIdle /\ ToolsIdle

Next ==
  \/ PipeSplit
  \/ PipeGuard
  \/ PipeMerge
  \/ PipeFilter
  \/ PipePreflight
  \/ PipeBuild
  \/ PipeFill
  \/ PipeCheckAttachments
  \/ PipeRunTb

Spec == Init /\ [][Next]_vars

Started(stage) == \E i \in DOMAIN pl_started : pl_started[i] = stage

\* C6: when no row of the parents CSV canonicalizes to the configured class,
\* the run never starts the preflight, the join, the email/body fill or the
\* Thunderbird stage, writes no mail-merge row and never ends as done: once
\* the class filter has run, the run is aborted.
NoRowOfClass ==
  \A i \in DOMAIN pl_parents :
    canon_div(pl_parents[i].Division) # MapStr(UpperCh, pl_args.classe)

C6_NoClassRowAbortsBeforeJoin ==
  (pl_pc # "idle" /\ NoRowOfClass) =>
    /\ ~Started("build") /\ ~Started("fill") /\ ~Started("tb")
    /\ pl_mailmerge = <<>> /\ pl_final = <<>>
    /\ pl_pc # "done"
    /\ Started("filter") => pl_pc = "aborted"

C6_Witness ==
  /\ NoRowOfClass
  /\ pl_parents # <<>>
  /\ pl_pc = "aborted"
  /\ pl_started # <<>>
  /\ pl_started[Len(pl_started)] = "filter"

\* C7: when a PDF under the output directory carries a class label other
\* than the configured class, the run is aborted by the guard: the merge, the
\* join and the Thunderbird stage never start.
OtherClassDocument ==
  \E p \in Range(pl_out_dir) : Len(p.parts) >= 2 /\ ClassOf(p) # pl_args.classe

C7_OtherClassAbortsBeforeMerge ==
  (pl_pc # "idle" /\ OtherClassDocument) =>
    /\ ~Started("merge") /\ ~Started("build") /\ ~Started("tb")
    /\ pl_pc \in {"split", "guard", "aborted"}

\* C16: where the uniform message body is injected, a row whose body is
\* already non-empty keeps it unchanged; only rows with an empty body receive
\* the uniform text (here: the pipeline's email/body fill step).
C16_CustomBodyKept ==
  pl_final # <<>> =>
    \A i \in DOMAIN pl_final :
      LET before == Field(pl_mailmerge[i], "CorpsMessage", "")
      IN  /\ before # "" => pl_final[i].CorpsMessage = before
          /\ before = "" => pl_final[i].CorpsMessage \in {"", pl_args.message}

LastStarted == IF pl_started = <<>> THEN "none" ELSE pl_started[Len(pl_started)]

\* documents present / class size, for the subject spelled as in `discs`,
\* is below the threshold
RatioBelow(discs) ==
  CountedPdfs(pl_out_dir, pl_args.classe, pl_args.annee, discs) * PreflightThresholdDen
    < PreflightThresholdNum * Len(pl_canon)

\* C21: once the preflight has run, a ratio of Français or of Mathématiques
\* below the threshold stops the run before the join with --strict and lets
\* it go on to the join without --strict; with both ratios at or above the
\* threshold the preflight never stops the run.
C21_PreflightStrictOnly ==
  Started("preflight") =>
    IF (RatioBelow(DiscsFr) \/ RatioBelow(DiscsMa)) /\ pl_args.strict
    THEN pl_pc = "aborted" /\ LastStarted = "preflight" /\ ~Started("build")
    ELSE pl_pc = "build" \/ Started("build")

\* C21 witness: a strict run stopped by the preflight with the French
\* documents complete and the Mathématiques ones missing
C21_Witness ==
  /\ pl_args.strict
  /\ ~RatioBelow(DiscsFr)
  /\ RatioBelow(DiscsMa)
  /\ pl_pc = "aborted"
  /\ LastStarted = "preflight"

\* some student of the mail-merge output has no document for a subject
StudentWithoutDocument ==
  \E i \in DOMAIN pl_mailmerge :
    pl_mailmerge[i].PJ_francais = <<>> \/ pl_mailmerge[i].PJ_math = <<>>

\* some attachment cell names a file that does not exist
AttachmentFileAbsent == MissingPj(pl_final, pl_platform) # {}

\* C23: with --strict, the Thunderbird stage is never started in a run where
\* a student of the mail-merge output has no matched document for a subject
\* or where a referenced attachment file does not exist (claim as stated; the
\* attachment check skips the empty cells).
C23_StrictNeverOpensIncomplete ==
  (pl_args # <<>> /\ pl_args.strict /\ (StudentWithoutDocument \/ AttachmentFileAbsent))
    => ~Started("tb")

StageOrder == <<"split", "guard", "merge", "filter", "preflight", "build", "fill", "tb">>

StageRank(stage) == CHOOSE k \in DOMAIN StageOrder : StageOrder[k] = stage

\* the files the stages write: the per-student documents, the merged and the
\* filtered parents CSV, the mail-merge CSV, the missing report, the final CSV
WrittenFiles == <<pl_out_dir, pl_csv, pl_canon, pl_mailmerge, pl_missing, pl_final>>

StartedInOrder ==
  \A i, j \in DOMAIN pl_started :
    i < j => StageRank(pl_started[i]) < StageRank(pl_started[j])

\* one step of a run: nothing starts and nothing is written once the run is
\* aborted, and the step that aborts leaves the written files as they are
AbortKeepsFiles ==
  /\ pl_pc = "aborted" => pl_started' = pl_started /\ WrittenFiles' = WrittenFiles
  /\ pl_pc' = "aborted" => WrittenFiles' = WrittenFiles
  /\ pl_started' # pl_started =>
       /\ pl_pc # "aborted"
       /\ \E stage \in Range(StageOrder) : pl_started' = Append(pl_started, stage)

\* C24: the stages start only in the order split, guard, merge, filter,
\* preflight, join, fill, Thunderbird; a stage starts only when no earlier
\* stage has aborted the run; after a fatal error no later stage starts, and
\* the files written so far are neither deleted nor rewritten.
C24_StagesInOrderAbortFinal ==
  /\ []StartedInOrder
  /\ [][AbortKeepsFiles]_vars

\* C24 witness: a --strict run with --run-tb aborted by the attachment check,
\* after the final CSV has been written
C24_Witness ==
  /\ pl_pc = "aborted"
  /\ LastStarted = "fill"
  /\ pl_final # <<>>
  /\ pl_args.run_tb
  /\ ~Started("tb")

\* the addresses of an Emails cell: the pieces between ";", stripped
RECURSIVE SplitSemicolons(_, _)
SplitSemicolons(s, cur) ==
  IF s = <<>> THEN <<cur>>
  ELSE IF Head(s) = ";" THEN <<cur>> \o SplitSemicolons(Tail(s), <<>>)
  ELSE SplitSemicolons(Tail(s), Append(cur, Head(s)))

EmailsList(cell) ==
  LET pieces == SplitSemicolons(cell, <<>>)
  IN  SelectSeq([k \in 1..Len(pieces) |-> Strip(pieces[k])], LAMBDA q : q # <<>>)

\* C27: every Emails value of the final joined output is a list of addresses
\* each matching the e-mail shape, no two of them equal ignoring case,
\* whatever the two guardian columns hold (claim as stated; the fill step
\* joins the two raw cells).
C27_FinalEmailsCanonical ==
  \A i \in DOMAIN pl_final :
    LET list == EmailsList(pl_final[i].Emails)
    IN  /\ \A k \in 1..Len(list) : EmailMatch(list[k])
        /\ \A k, l \in 1..Len(list) :
             MapStr(LowerCh, list[k]) = MapStr(LowerCh, list[l]) => k = l

\* ------------------------------------------------------------------------
\* split_pdf (Windows/split_4C.py)
\* ------------------------------------------------------------------------
\* A page of the input is what the text functions make of it: the extracted
\* name (NoneVal when extract_name finds none), the two scores of
\* score_disciplines and the raw text ("" when the extraction fails).
NoneVal == <<"None">>

AccentedLetters == {"Egrave", "Eacute", "Ccedil", "egrave", "eacute", "ccedil"}

\* \w under re.UNICODE
WordChars == UpperLetters \cup LowerLetters \cup Digits \cup AccentedLetters \cup {"_"}

IsWordChar(c) == c \in WordChars

\* re.sub(r"\s+", "_", s)
WhitespaceToUnderscore(s) ==
  LET first == SelectSeq([i \in 1..Len(s) |-> i],
                         LAMBDA i : ~(s[i] \in Whitespace /\ i > 1 /\ s[i - 1] \in Whitespace))
  IN  [k \in 1..Len(first) |-> IF s[first[k]] \in Whitespace THEN "_" ELSE s[first[k]]]

\* re.sub(r"_+", "_", s)
CollapseUnderscores(s) ==
  LET first == SelectSeq([i \in 1..Len(s) |-> i],
                         LAMBDA i : ~(s[i] = "_" /\ i > 1 /\ s[i - 1] = "_"))
  IN  [k \in 1..Len(first) |-> s[first[k]]]

\* s.strip("_")
RECURSIVE StripUnderscores(_)
StripUnderscores(s) ==
  IF s # <<>> /\ Head(s) = "_" THEN StripUnderscores(Tail(s))
  ELSE IF s # <<>> /\ s[Len(s)] = "_" THEN StripUnderscores(SubSeq(s, 1, Len(s) - 1))
  ELSE s

safe_filename(s0, keep_accents) ==
  LET s1 == Strip(s0)
      s2 == IF keep_accents THEN s1 ELSE strip_accents(s1)
      s3 == WhitespaceToUnderscore(s2)
      s4 == FilterStr(LAMBDA c : IsWordChar(c) \/ c \in {".", "-"}, s3)
  IN  StripUnderscores(CollapseUnderscores(s4))

\* the higher score decides, without any margin
guess_discipline_no_margin(fr, ma) ==
  IF fr > ma THEN S_Francais ELSE IF ma > fr THEN S_Mathematiques ELSE NoneVal

\* guess_discipline on the two scores
guess_discipline(fr, ma) ==
  IF fr = 0 /\ ma = 0 THEN NoneVal
  ELSE IF fr >= ma + 2 \/ (fr >= 3 /\ ma = 0) THEN S_Francais
  ELSE IF ma >= fr + 2 \/ (ma >= 3 /\ fr = 0) THEN S_Mathematiques
  ELSE NoneVal

\* page.extract_text() raised: the page is read as the empty text
ExtractFails(page) == page.raw = "raises"

\* step 1: one entry of pages_info per page; the name and the scores of the
\* empty text are None and (0, 0)
PagesInfo(pages) ==
  [i \in 1..Len(pages) |->
     IF ExtractFails(pages[i])
     THEN [idx |-> i, name |-> NoneVal, disc |-> guess_discipline(0, 0),
           fr |-> 0, ma |-> 0, raw |-> ""]
     ELSE [idx |-> i, name |-> pages[i].name,
           disc |-> guess_discipline(pages[i].fr, pages[i].ma),
           fr |-> pages[i].fr, ma |-> pages[i].ma, raw |-> pages[i].raw]]

\* step 2: the indexes of the pages of one student
Group(info, name) == {i \in 1..Len(info) : info[i].name = name}

\* the first page of the group, whatever the scores
BestFirstPage(info, G, f) == Min(G)

\* max(items, key=(score, -idx)): highest score, lowest index on ties
Best(info, G, f) ==
  CHOOSE i \in G : \A j \in G : info[i][f] > info[j][f] \/ (info[i][f] = info[j][f] /\ i <= j)

\* only the pages that win a score get a subject from the group
GroupAssignmentWinnersOnly(info, G) ==
  LET best_fr == Best(info, G, "fr")
      best_ma == Best(info, G, "ma")
  IN  IF best_fr = best_ma
      THEN IF info[best_fr].fr >= info[best_fr].ma
           THEN (best_fr :> S_Francais)
           ELSE (best_ma :> S_Mathematiques)
      ELSE (best_ma :> S_Mathematiques) @@ (best_fr :> S_Francais)

\* the subjects the group assigns to its best pages: page index -> subject
GroupAssignment(info, G) ==
  LET best_fr == Best(info, G, "fr")
      best_ma == Best(info, G, "ma")
      alt == Min(G \ {best_fr})
  IN  IF best_fr = best_ma
      THEN IF info[best_fr].fr >= info[best_fr].ma
           THEN (alt :> S_Mathematiques) @@ (best_fr :> S_Francais)
           ELSE (alt :> S_Francais) @@ (best_ma :> S_Mathematiques)
      ELSE (best_ma :> S_Mathematiques) @@ (best_fr :> S_Francais)

\* step 3: the subject of page i after the resolution, `assigned` being the
\* assignment of its group
ResolvedDisc(it, size, assigned) ==
  IF it.name = NoneVal THEN it.disc
  ELSE IF size >= 2
       THEN IF it.idx \in DOMAIN assigned THEN assigned[it.idx]
            ELSE IF it.disc # NoneVal THEN it.disc
            ELSE IF it.fr >= it.ma THEN S_Francais ELSE S_Mathematiques
       ELSE IF it.disc # NoneVal THEN it.disc
            ELSE IF it.fr > it.ma /\ it.fr >= 2 THEN S_Francais
            ELSE IF it.ma > it.fr /\ it.ma >= 2 THEN S_Mathematiques
            ELSE NoneVal

Resolve(info) ==
  LET names == {info[i].name : i \in 1..Len(info)} \ {NoneVal}
      size == [n \in names |-> Cardinality(Group(info, n))]
      assigned == [n \in names |-> IF size[n] >= 2 THEN GroupAssignment(info, Group(info, n))
                                   ELSE <<>>]
  IN  [i \in 1..Len(info) |->
         [info[i] EXCEPT !.disc =
            IF info[i].name = NoneVal THEN info[i].disc
            ELSE ResolvedDisc(info[i], size[info[i].name], assigned[info[i].name])]]

\* a page counted as unresolved only when its name is missing
IsMissingNameOnly(it) == it.name = NoneVal

IsMissing(it) == it.name = NoneVal \/ it.disc = NoneVal

\* str.split()
RECURSIVE SplitWords(_, _)
SplitWords(s, cur) ==
  IF s = <<>> THEN (IF cur = <<>> THEN <<>> ELSE <<cur>>)
  ELSE IF Head(s) \in Whitespace
       THEN (IF cur = <<>> THEN <<>> ELSE <<cur>>) \o SplitWords(Tail(s), <<>>)
       ELSE SplitWords(Tail(s), Append(cur, Head(s)))

\* "Prénom NOM" -> the file name CLASS_NOM_Prénom_Discipline_YEAR.pdf
SplitFileName(it, classe, annee, keep_accents) ==
  LET parts == SplitWords(it.name, <<>>)
      prenom == IF Len(parts) >= 2
                THEN Flatten([k \in 1..(2 * Len(parts) - 3) |->
                               IF k % 2 = 1 THEN parts[(k + 1) \div 2] ELSE <<" ">>])
                ELSE <<>>
      nom == parts[Len(parts)]
  IN  safe_filename(classe \o <<"_">> \o nom \o <<"_">> \o prenom \o <<"_">> \o it.disc
                    \o <<"_">> \o annee \o <<".", "p", "d", "f">>, keep_accents)

\* number of unresolved pages the report prints
ReportLimit == 10

MissingEntry(it) ==
  [page |-> it.idx, discipline |-> it.disc, name |-> it.name, sample |-> it.raw,
   scores |-> <<it.fr, it.ma>>]

\* the printed line of one entry of `missing`
ReportLine(m) == [page |-> m.page, discipline |-> m.discipline, name |-> m.name, scores |-> m.scores]

Report(missing) ==
  LET shown == SubSeq(missing, 1, IF Len(missing) < ReportLimit THEN Len(missing) ELSE ReportLimit)
  IN  [lines |-> [k \in 1..Len(shown) |-> ReportLine(shown[k])],
       others |-> IF Len(missing) > ReportLimit THEN Len(missing) - ReportLimit ELSE 0]

\* step 4: the entries of `extracted`, one per resolved page in page order
Extracted(info, classe, annee, keep_accents) ==
  LET written == SelectSeq(info, LAMBDA it : ~IsMissing(it))
  IN  [k \in 1..Len(written) |->
         [idx |-> written[k].idx, name |-> written[k].name, disc |-> written[k].disc,
          file |-> SplitFileName(written[k], classe, annee, keep_accents)]]

\* the files on disk: a later page replaces an earlier one of the same file name
RECURSIVE WriteFiles(_, _)
WriteFiles(extracted, files) ==
  IF extracted = <<>> THEN files
  ELSE WriteFiles(Tail(extracted), (Head(extracted).file :> Head(extracted).idx) @@ files)

Missing(info) ==
  LET missing == SelectSeq(info, LAMBDA it : IsMissing(it))
  IN  [k \in 1..Len(missing) |-> MissingEntry(missing[k])]

\* ---- bounded inputs of split_pdf ----
MaxPages == 3

\* length of the long documents, one more than the report prints
LongPages == 11

S_E_AB == <<"E", " ", "A", "B">>

S_Eacute_AB == <<"Eacute", " ", "A", "B">>

\* a name of three words, such as "Jean Paul DUPONT"
S_E_F_AB == <<"E", " ", "F", " ", "A", "B">>

StudentNames == {S_E_AB, S_Eacute_AB, S_E_F_AB}

Scores == {0, 1, 2}

Page(n, f, m, r) == [name |-> n, fr |-> f, ma |-> m, raw |-> r]

\* a page without text: no name, no score
BlankPage == Page(NoneVal, 0, 0, "")

\* a page of a student whose text extraction raises
FailingPage == Page(S_E_AB, 3, 0, "raises")

\* every pair of scores for one student, two clear-cut pages for a student
\* whose name differs by an accent, a clear-cut page for a student with a
\* name of three words, a page without a name, a page without text, a page
\* whose extraction raises, and two pages that both look like Mathématiques
\* on their own
PageSet ==
  {BlankPage, FailingPage, Page(NoneVal, 2, 0, "text"), Page(S_E_F_AB, 2, 0, "text")}
    \cup {Page(S_E_AB, f, m, "text") : f \in Scores, m \in Scores}
    \cup {Page(S_Eacute_AB, 2, 0, "text"), Page(S_Eacute_AB, 0, 2, "text")}
    \cup {Page(S_E_AB, 1, 3, "text"), Page(S_E_AB, 0, 4, "text")}

\* the two pages long documents are made of
LongPageSet == {BlankPage, Page(S_E_AB, 3, 0, "text")}

SplitInput(e, k, pages) ==
  [exists |-> e, keep_accents |-> k, classe |-> S_4D, annee |-> S_2025, pages |-> pages]

SplitInit ==
  /\ \/ sp_input = SplitInput(FALSE, FALSE, <<>>)
     \/ \E k \in BOOLEAN, n \in 0..MaxPages :
          \E q \in [1..n -> PageSet] : sp_input = SplitInput(TRUE, k, q)
     \/ \E q \in [1..LongPages -> LongPageSet] : sp_input = SplitInput(TRUE, FALSE, q)
  /\ sp_info = <<>>
  /\ sp_files = <<>>
  /\ sp_extracted = <<>>
  /\ sp_missing = <<>>
  /\ sp_report = <<>>
  /\ sp_pc = "start"

\* split_pdf raises when the input file does not exist
SplitPdfNoInput ==
  /\ sp_pc = "start"
  /\ ~sp_input.exists
  /\ sp_pc' = "error"
  /\ UNCHANGED <<sp_input, sp_info, sp_files, sp_extracted, sp_missing, sp_report, OutsideSplit>>

\* split_pdf: collect, group, resolve the subjects, write the files, report
SplitPdf ==
  /\ sp_pc = "start"
  /\ sp_input.exists
  /\ sp_info' = Resolve(PagesInfo(sp_input.pages))
  /\ sp_extracted' = Extracted(sp_info', sp_input.classe, sp_input.annee, sp_input.keep_accents)
  /\ sp_files' = WriteFiles(sp_extracted', <<>>)
  /\ sp_missing' = Missing(sp_info')
  /\ sp_report' = Report(sp_missing')
  /\ sp_pc' = "done"
  /\ UNCHANGED <<sp_input, OutsideSplit>>

InitSplit == SplitInit /\ NormIdle /\ MergeIdle /\ JoinIdle /\ PipeIdle /\ ToolsIdle

NextSplit ==
  \/ SplitPdfNoInput
  \/ SplitPdf

SpecSplit == InitSplit /\ [][NextSplit]_vars

\* C10: split_pdf reports every unresolved page (no name or no subject) with
\* its page index, its scores and a text sample, whatever their number.
UnresolvedPages == {i \in 1..Len(sp_info) : IsMissing(sp_info[i])}

ReportedInFull(i) ==
  \E k \in DOMAIN sp_report.lines :
    /\ sp_report.lines[k].page = i
    /\ sp_report.lines[k].scores = <<sp_info[i].fr, sp_info[i].ma>>
    /\ "sample" \in DOMAIN sp_report.lines[k]
    /\ sp_report.lines[k].sample = sp_info[i].raw

C10_EveryUnresolvedPageReported ==
  sp_pc = "done" => \A i \in UnresolvedPages : ReportedInFull(i)

\* C11: every page of the document ends in exactly one outcome: written as a
\* classified artifact (with a name and a subject) or recorded as unresolved
\* (name or subject null); a page whose extraction fails is unresolved and
\* the run does not raise.
ExtractedAt(i) == {k \in DOMAIN sp_extracted : sp_extracted[k].idx = i}

MissingAt(i) == {k \in DOMAIN sp_missing : sp_missing[k].page = i}

C11_EveryPageOneOutcome ==
  /\ (sp_pc = "error") => ~sp_input.exists
  /\ (sp_pc = "done") =>
        \A i \in 1..Len(sp_input.pages) :
          /\ Cardinality(ExtractedAt(i)) + Cardinality(MissingAt(i)) = 1
          /\ \A k \in ExtractedAt(i) :
                /\ sp_extracted[k].name # NoneVal /\ sp_extracted[k].disc # NoneVal
                /\ \E f \in DOMAIN sp_files : f = sp_extracted[k].file
          /\ \A k \in MissingAt(i) :
                sp_missing[k].name = NoneVal \/ sp_missing[k].discipline = NoneVal
          /\ ExtractFails(sp_input.pages[i]) => MissingAt(i) # {}

\* C11 witness: a run with a failing page, a written page and a page that
\* has a name but no subject
C11_Witness ==
  /\ sp_pc = "done"
  /\ \E i, j, k \in 1..Len(sp_input.pages) :
        /\ ExtractFails(sp_input.pages[i]) /\ MissingAt(i) # {}
        /\ ExtractedAt(j) # {}
        /\ MissingAt(k) # {} /\ sp_info[k].name # NoneVal

\* the pages of the student of page i, after the run
GroupOf(i) == Group(sp_info, sp_info[i].name)

\* the provisional subject of page i (guess_discipline on its own text)
Provisional(i) == guess_discipline(sp_info[i].fr, sp_info[i].ma)

\* C12: in a two-page group where page a has the strictly higher French
\* score and page b the strictly higher Math score, a gets Français and b
\* gets Mathématiques, whatever their order and provisional subjects.
C12_TwoPagesCrossedScores ==
  sp_pc = "done" =>
    \A a, b \in 1..Len(sp_info) :
      ( /\ a # b
        /\ sp_info[a].name # NoneVal
        /\ GroupOf(a) = {a, b}
        /\ sp_info[a].fr > sp_info[b].fr
        /\ sp_info[b].ma > sp_info[a].ma )
      => sp_info[a].disc = S_Francais /\ sp_info[b].disc = S_Mathematiques

\* C12 witness: the French page comes second and looked like Mathématiques
\* on its own
C12_Witness ==
  /\ sp_pc = "done"
  /\ \E a, b \in 1..Len(sp_info) :
        /\ b < a
        /\ sp_info[a].name # NoneVal
        /\ GroupOf(a) = {a, b}
        /\ sp_info[a].fr > sp_info[b].fr
        /\ sp_info[b].ma > sp_info[a].ma
        /\ Provisional(a) = S_Mathematiques
        /\ sp_info[a].disc = S_Francais

\* C13: in a group of two or more pages where one page p has both the highest
\* French and the highest Math score, p gets the subject of its own higher
\* score and the other subject goes to the page with the highest score for
\* that other subject among the remaining pages (lowest index on ties).
C13_SamePageWinsBoth ==
  sp_pc = "done" =>
    \A p \in 1..Len(sp_info) :
      ( /\ sp_info[p].name # NoneVal
        /\ Cardinality(GroupOf(p)) >= 2
        /\ Best(sp_info, GroupOf(p), "fr") = p
        /\ Best(sp_info, GroupOf(p), "ma") = p )
      => /\ sp_info[p].fr > sp_info[p].ma =>
              /\ sp_info[p].disc = S_Francais
              /\ sp_info[Best(sp_info, GroupOf(p) \ {p}, "ma")].disc = S_Mathematiques
         /\ sp_info[p].ma > sp_info[p].fr =>
              /\ sp_info[p].disc = S_Mathematiques
              /\ sp_info[Best(sp_info, GroupOf(p) \ {p}, "fr")].disc = S_Francais

\* C14: the page of a one-page group ends with a subject iff one of its two
\* scores is at least 2 and strictly greater than the other, and the subject
\* is then the one of the greater score; otherwise it stays unresolved.
C14_SinglePageNeedsClearScore ==
  sp_pc = "done" =>
    \A i \in 1..Len(sp_info) :
      (sp_info[i].name # NoneVal /\ GroupOf(i) = {i}) =>
        /\ sp_info[i].disc = S_Francais
              <=> (sp_info[i].fr >= 2 /\ sp_info[i].fr > sp_info[i].ma)
        /\ sp_info[i].disc = S_Mathematiques
              <=> (sp_info[i].ma >= 2 /\ sp_info[i].ma > sp_info[i].fr)
        /\ sp_info[i].disc \in {S_Francais, S_Mathematiques, NoneVal}
        /\ sp_info[i].disc = NoneVal <=> MissingAt(i) # {}

\* C14 witness: a lone page with scores (2, 1), which has no provisional
\* subject, is resolved as Français and written
C14_Witness ==
  /\ sp_pc = "done"
  /\ \E i \in 1..Len(sp_info) :
        /\ sp_info[i].name # NoneVal /\ GroupOf(i) = {i}
        /\ sp_info[i].fr = 2 /\ sp_info[i].ma = 1
        /\ Provisional(i) = NoneVal
        /\ sp_info[i].disc = S_Francais
        /\ ExtractedAt(i) # {}

\* the pages of group G chosen as best pages: the best French page and the
\* best Math page, or, when one page wins both, that page and the best
\* remaining page for the other subject
ChosenPages(G) ==
  LET bf == Best(sp_info, G, "fr")
      bm == Best(sp_info, G, "ma")
  IN  IF bf # bm THEN {bf, bm}
      ELSE {bf, Best(sp_info, G \ {bf},
                     IF sp_info[bf].fr >= sp_info[bf].ma THEN "ma" ELSE "fr")}

\* C15: after the resolution every page of a group of two or more pages has
\* a subject; a page of such a group that was neither chosen as a best page
\* nor given a provisional subject has the subject of its own higher score.
C15_GroupPagesAllResolved ==
  sp_pc = "done" =>
    \A i \in 1..Len(sp_info) :
      (sp_info[i].name # NoneVal /\ Cardinality(GroupOf(i)) >= 2) =>
        /\ sp_info[i].disc \in {S_Francais, S_Mathematiques}
        /\ (i \notin ChosenPages(GroupOf(i)) /\ Provisional(i) = NoneVal) =>
              /\ sp_info[i].fr > sp_info[i].ma => sp_info[i].disc = S_Francais
              /\ sp_info[i].ma > sp_info[i].fr => sp_info[i].disc = S_Mathematiques

\* the parts of a file name as the join reads them: the stem cut at "_"
RECURSIVE SplitUnderscores(_, _)
SplitUnderscores(s, cur) ==
  IF s = <<>> THEN <<cur>>
  ELSE IF Head(s) = "_" THEN <<cur>> \o SplitUnderscores(Tail(s), <<>>)
  ELSE SplitUnderscores(Tail(s), Append(cur, Head(s)))

StemParts(file) == SplitUnderscores(SubSeq(file, 1, Len(file) - 4), <<>>)

\* words w[i..j] joined by single spaces
WordsJoined(w, i, j) ==
  Flatten([k \in 1..(2 * (j - i) + 1) |-> IF k % 2 = 1 THEN w[i + (k - 1) \div 2] ELSE <<" ">>])

\* the join, run for the year of the split over the one written file and the
\* one parent record, attaches the file to the record under subject disc
JoinAttaches(parent, file, disc, annee) ==
  LET pdf == PdfFile("top", StemParts(file))
      outs == WinOutRows(WinRetained(<<parent>>), WinMaps(<<pdf>>, annee))
  IN  /\ Len(outs) = 1
      /\ IF disc = S_Francais THEN outs[1].PJ_francais = <<pdf>>
         ELSE outs[1].PJ_math = <<pdf>>

\* C28: the file written for a resolved page named "GivenName SURNAME" is
\* matched by the join, run for the same class and year, to the parent
\* record of that surname and given name, for some reading of the words of
\* the name as a given name followed by a surname (either may have several
\* words).
C28_SplitFileMatchedByJoin ==
  sp_pc = "done" =>
    \A k \in DOMAIN sp_extracted :
      LET e == sp_extracted[k]
          w == SplitWords(e.name, <<>>)
      IN  \E c \in 1..(Len(w) - 1) :
            JoinAttaches([Division |-> sp_input.classe,
                          Nom |-> WordsJoined(w, c + 1, Len(w)),
                          Prenom |-> WordsJoined(w, 1, c)],
                         e.file, e.disc, sp_input.annee)

\* C29: two different resolved pages are never written to the same file, so
\* the number of files present after the run is the number of pages counted
\* as extracted (groups of three or more pages and names differing only by
\* accents included).
C29_DistinctPagesDistinctFiles ==
  sp_pc = "done" =>
    /\ \A k, l \in DOMAIN sp_extracted :
         sp_extracted[k].file = sp_extracted[l].file => k = l
    /\ Cardinality(DOMAIN sp_files) = Len(sp_extracted)

\* C30: after the resolution the two pages of a group of exactly two pages
\* have different subjects, one Français and one Mathématiques, whatever
\* their scores and provisional subjects.
C30_TwoPagesTwoSubjects ==
  sp_pc = "done" =>
    \A a, b \in 1..Len(sp_info) :
      (a # b /\ sp_info[a].name # NoneVal /\ GroupOf(a) = {a, b}) =>
        {sp_info[a].disc, sp_info[b].disc} = {S_Francais, S_Mathematiques}

\* C30 witness: two pages of one student with all scores zero and no
\* provisional subject; the first is Français, the second Mathématiques
C30_Witness ==
  /\ sp_pc = "done"
  /\ \E a, b \in 1..Len(sp_info) :
        /\ a < b
        /\ sp_info[a].name # NoneVal
        /\ GroupOf(a) = {a, b}
        /\ sp_info[a].fr = 0 /\ sp_info[a].ma = 0
        /\ sp_info[b].fr = 0 /\ sp_info[b].ma = 0
        /\ Provisional(a) = NoneVal /\ Provisional(b) = NoneVal
        /\ sp_info[a].disc = S_Francais
        /\ sp_info[b].disc = S_Mathematiques

\* ------------------------------------------------------------------------
\* Specification SpecEmail: _canon_email_list applied to bounded inputs
\* ------------------------------------------------------------------------
\* ---- bounded inputs of _canon_email_list ----
\* number of addresses or near-addresses in the two values together
MaxEmailTokens == 3

EmailTokens == {E_a_x_com, E_A_X_COM, E_b_y_com, E_a_x, E_wrapped_b}

\* "; ", " , " and "/"
EmailJoints == {<<";", " ">>, <<" ", ",", " ">>, <<"/">>}

\* the tokens joined by the joints: t1 j1 t2 j2 t3 ...
RECURSIVE JoinTokens(_, _)
JoinTokens(tokens, joints) ==
  IF tokens = <<>> THEN <<>>
  ELSE IF Len(tokens) = 1 THEN tokens[1]
  ELSE tokens[1] \o joints[1] \o JoinTokens(Tail(tokens), Tail(joints))

\* "a@x.com; A@X.COM , b@y.com"
EmailExample ==
  JoinTokens(<<E_a_x_com, E_A_X_COM, E_b_y_com>>, <<<<";", " ">>, <<" ", ",", " ">>>>)

\* the two guardian cells: the first `cut` tokens and the others, two
\* separators alternating between the tokens
EmailInit ==
  /\ \E n \in 0..MaxEmailTokens :
       \E tokens \in [1..n -> EmailTokens], odd \in EmailJoints, even \in EmailJoints, cut \in 0..n :
         LET joints == [i \in 1..n |-> IF i % 2 = 1 THEN odd ELSE even]
         IN  em_values = <<JoinTokens(SubSeq(tokens, 1, cut), SubSeq(joints, 1, cut)),
                           JoinTokens(SubSeq(tokens, cut + 1, n), SubSeq(joints, cut + 1, n))>>
  /\ em_out = <<>>
  /\ em_pc = "start"

CanonEmailList ==
  /\ em_pc = "start"
  /\ em_out' = canon_email_list(em_values)
  /\ em_pc' = "done"
  /\ UNCHANGED <<em_values, OutsideEmail>>

InitEmail ==
  EmailInit /\ NormIdle /\ MergeIdle /\ JoinIdle /\ PipeIdle /\ SplitIdle /\ ReaderIdle

NextEmail ==
  \/ CanonEmailList

SpecEmail == InitEmail /\ [][NextEmail]_vars

\* the valid addresses of the input, in order of appearance
ValidAddresses == SelectSeq(EmailParts(em_values), EmailMatch)

FoldCase(p) == MapStr(LowerCh, p)

\* index in `valid` of the first address equal to e ignoring case
FirstSeen(valid, e) ==
  Min({i \in 1..Len(valid) : FoldCase(valid[i]) = FoldCase(e)})

\* C17: _canon_email_list returns a list whose entries all match the e-mail
\* shape, no two of them equal ignoring case, in first-seen order with the
\* first-seen spelling, and every valid address of the input is represented
\* ignoring case; "a@x.com; A@X.COM , b@y.com" gives [a@x.com, b@y.com].
C17_CanonEmailList ==
  em_pc = "done" =>
    LET valid == ValidAddresses
        first == [k \in 1..Len(em_out) |-> FirstSeen(valid, em_out[k])]
    IN  /\ \A k \in 1..Len(em_out) : EmailMatch(em_out[k])
        /\ \A k, l \in 1..Len(em_out) : FoldCase(em_out[k]) = FoldCase(em_out[l]) => k = l
        /\ \A k \in 1..Len(em_out) :
             /\ \E i \in 1..Len(valid) : FoldCase(valid[i]) = FoldCase(em_out[k])
             /\ em_out[k] = valid[first[k]]
        /\ \A k, l \in 1..Len(em_out) : k < l => first[k] < first[l]
        /\ \A i \in 1..Len(valid) :
             \E k \in 1..Len(em_out) : FoldCase(em_out[k]) = FoldCase(valid[i])
        /\ em_values[1] = EmailExample /\ em_values[2] = <<>> =>
             em_out = <<E_a_x_com, E_b_y_com>>

\* C17 witness: the example of the claim has been canonicalised
C17_Witness ==
  /\ em_pc = "done"
  /\ em_values = <<EmailExample, <<>>>>
  /\ em_out = <<E_a_x_com, E_b_y_com>>

\* ------------------------------------------------------------------------
\* open_csv_reader and the reading of the rows
\* (Windows/build_mailmerge_4e_from_merged_v5.py, Windows/pipeline_evalnat.py)
\* ------------------------------------------------------------------------
\* A file is a sequence of bytes, each written as its two hexadecimal digits.
\* "41" is an ASCII letter; "C3" leads a two-byte UTF-8 sequence, "E9" and
\* "EF" lead three-byte ones; "A9", "81", "BF" and "BD" are continuation
\* bytes.  In cp1252 every byte here is a character except "81", which is
\* undefined ("C3" is Ã, "A9" is ©, "E9" is é, "EF BF BD" is ï¿½).
AsciiBytes == {"41"}

Lead2Bytes == {"C3"}

Lead3Bytes == {"E9", "EF"}

ContinuationBytes == {"A9", "81", "BF", "BD"}

Cp1252Undefined == {"81"}

FileBytes == AsciiBytes \cup Lead2Bytes \cup Lead3Bytes \cup ContinuationBytes

\* raw.decode("utf-8") does not raise
RECURSIVE Utf8Valid(_)
Utf8Valid(raw) ==
  IF raw = <<>> THEN TRUE
  ELSE IF raw[1] \in AsciiBytes THEN Utf8Valid(Tail(raw))
  ELSE IF raw[1] \in Lead2Bytes
       THEN Len(raw) >= 2 /\ raw[2] \in ContinuationBytes
            /\ Utf8Valid(SubSeq(raw, 3, Len(raw)))
  ELSE IF raw[1] \in Lead3Bytes
       THEN Len(raw) >= 3 /\ raw[2] \in ContinuationBytes /\ raw[3] \in ContinuationBytes
            /\ Utf8Valid(SubSeq(raw, 4, Len(raw)))
  ELSE FALSE

\* the text of valid UTF-8 bytes: one character per sequence, written as the
\* bytes that encode it
RECURSIVE Utf8Decode(_)
Utf8Decode(raw) ==
  IF raw = <<>> THEN <<>>
  ELSE LET n == IF raw[1] \in Lead2Bytes THEN 2 ELSE IF raw[1] \in Lead3Bytes THEN 3 ELSE 1
       IN  <<SubSeq(raw, 1, n)>> \o Utf8Decode(SubSeq(raw, n + 1, Len(raw)))

\* raw.decode("cp1252") does not raise
Cp1252Valid(raw) == \A i \in 1..Len(raw) : raw[i] \notin Cp1252Undefined

\* the cp1252 text: one character per byte
Cp1252Decode(raw) == [i \in 1..Len(raw) |-> <<raw[i]>>]

Contains(txt, pat) ==
  \E i \in 1..(Len(txt) - Len(pat) + 1) : SubSeq(txt, i, i + Len(pat) - 1) = pat

\* "ï¿½", "Ã©", "Ã¨", "Ãª", "Ã«", "Ã" as cp1252 text
MojibakeArtifacts ==
  { <<<<"EF">>, <<"BF">>, <<"BD">>>>,
    <<<<"C3">>, <<"A9">>>>, <<<<"C3">>, <<"A8">>>>, <<<<"C3">>, <<"AA">>>>,
    <<<<"C3">>, <<"AB">>>>, <<<<"C3">>>> }

HasArtifact(txt) == \E a \in MojibakeArtifacts : Contains(txt, a)

\* open_csv_reader of build_mailmerge: the encoding the file is opened with
open_csv_reader(raw) ==
  IF Utf8Valid(raw) THEN "utf-8-sig"
  ELSE IF Cp1252Valid(raw)
       THEN IF HasArtifact(Cp1252Decode(raw)) /\ Utf8Valid(raw) THEN "utf-8-sig" ELSE "cp1252"
       ELSE "utf-8-sig"

\* open_csv_reader of the pipeline: open() decodes nothing, so the
\* UnicodeDecodeError branch is never taken
pipeline_open_csv_reader(raw) == "utf-8-sig"

DecodeError == <<"UnicodeDecodeError">>

\* a file that is only the beginning of the signature EF BB BF: the
\* utf-8-sig decoder waits for the rest and gives no text
SignaturePrefixes == {<<"EF">>}

\* reading the whole file through the opened decoder (errors="strict")
ReadText(raw, decoder) ==
  IF decoder = "utf-8-sig"
  THEN IF raw \in SignaturePrefixes THEN <<>>
       ELSE IF Utf8Valid(raw) THEN Utf8Decode(raw) ELSE DecodeError
  ELSE IF Cp1252Valid(raw) THEN Cp1252Decode(raw) ELSE DecodeError

\* ---- bounded inputs of the CSV ingestion ----
MaxBytes == 3

ReaderInit ==
  /\ rd_variant \in {"build", "pipeline"}
  /\ \E n \in 0..MaxBytes : rd_bytes \in [1..n -> FileBytes]
  /\ rd_decoder = "none"
  /\ rd_text = <<>>
  /\ rd_pc = "start"

\* with open_csv_reader(inp_csv) as f
OpenCsvReader ==
  /\ rd_pc = "start"
  /\ rd_decoder' = IF rd_variant = "build" THEN open_csv_reader(rd_bytes)
                   ELSE pipeline_open_csv_reader(rd_bytes)
  /\ rd_pc' = "opened"
  /\ UNCHANGED <<rd_variant, rd_bytes, rd_text, OutsideReader>>

\* for r in rdr: the rows are read to the end
ReadRows ==
  /\ rd_pc = "opened"
  /\ ReadText(rd_bytes, rd_decoder) # DecodeError
  /\ rd_text' = ReadText(rd_bytes, rd_decoder)
  /\ rd_pc' = "read"
  /\ UNCHANGED <<rd_variant, rd_bytes, rd_decoder, OutsideReader>>

\* for r in rdr: the decoder meets bytes it cannot decode
ReadRowsRaises ==
  /\ rd_pc = "opened"
  /\ ReadText(rd_bytes, rd_decoder) = DecodeError
  /\ rd_pc' = "raised"
  /\ UNCHANGED <<rd_variant, rd_bytes, rd_decoder, rd_text, OutsideReader>>

InitReader ==
  ReaderInit /\ NormIdle /\ MergeIdle /\ JoinIdle /\ PipeIdle /\ SplitIdle /\ EmailIdle

NextReader ==
  \/ OpenCsvReader
  \/ ReadRows
  \/ ReadRowsRaises

SpecReader == InitReader /\ [][NextReader]_vars

\* C18: in open_csv_reader (build_mailmerge), when the bytes fail strict UTF-8
\* decoding and their cp1252 text contains a double-encoding artifact, the
\* file is read with the UTF-8-with-signature decoder, not with cp1252.
C18_ArtifactPrefersUtf8 ==
  ( /\ rd_variant = "build"
    /\ rd_pc \in {"opened", "read", "raised"}
    /\ ~Utf8Valid(rd_bytes)
    /\ Cp1252Valid(rd_bytes)
    /\ HasArtifact(Cp1252Decode(rd_bytes)) )
  => rd_decoder = "utf-8-sig"

\* C19: ingesting a parents CSV (open_csv_reader, then reading all rows)
\* never raises a decoding error, whatever the bytes of the file.
C19_IngestionNeverRaises == rd_pc # "raised"

====
